---------------------------- MODULE Spec2Model ----------------------------
(***************************************************************************)
(* A model of the unit-aware numeric expression compiler of                *)
(* src/numeric (Numeric::Compiler): Parse (tokenizer), Solve (shunting     *)
(* yard + stack evaluator + normaliser), Format, SetUnitOut.               *)
(*                                                                         *)
(* Text is a TLA+ string, read one character at a time with SubSeq.        *)
(* A double is modelled by an exact decimal rational n/d * 10^e (or one of *)
(* the IEEE non-finite values), so that the scale constants of the unit    *)
(* tables (0.0254, 1609.344, 1e9/0.0254, ...) are represented exactly and  *)
(* two scales are equal exactly when the two constants are.                *)
(***************************************************************************)
EXTENDS Integers, Sequences, FiniteSets, TLC

VARIABLES
    desiredUnitType,     \* Compiler::_desiredUnitType
    mapUnits,            \* Compiler::_mapUnits        (name -> Unit)
    mapUnitLookup,       \* Compiler::_mapUnitLookup   (scale -> name)
    imperialFractions,   \* Compiler::_imperialFractions
    localeDecimalPoint,  \* Compiler::_localeDecimalPoint (cached by Parse)
    inputPos,            \* Compiler::_inputPos (left by the last Parse)
    charSigned,          \* the build: is plain char a signed type?
    prevSolution,        \* the caller's previous Solution
    heldTokens,          \* the caller's token vector from the last Parse call
    call                 \* the call in progress / just returned, with its result

vars == << desiredUnitType, mapUnits, mapUnitLookup, imperialFractions,
           localeDecimalPoint, inputPos, charSigned, prevSolution,
           heldTokens, call >>

-----------------------------------------------------------------------------
(***************************************************************************)
(* Exact arithmetic standing for double.                                   *)
(* A finite value is [k |-> "fin", n, d, e] = n/d * 10^e in canonical form:*)
(* gcd(n,d) = 1, d > 0 coprime to 10, 10 does not divide n, zero is 0/1e0. *)
(***************************************************************************)

RECURSIVE GCD(_, _)
GCD(a, b) == IF b = 0 THEN a ELSE GCD(b, a % b)

AbsInt(i) == IF i < 0 THEN -i ELSE i

RECURSIVE Pow10(_)
Pow10(k) == IF k = 0 THEN 1 ELSE 10 * Pow10(k - 1)

Fin(n, d, e) == [k |-> "fin", n |-> n, d |-> d, e |-> e]

RECURSIVE StripDen(_, _, _)
StripDen(n, d, e) ==
    IF d % 2 = 0 THEN StripDen(n * 5, d \div 2, e - 1)
    ELSE IF d % 5 = 0 THEN StripDen(n * 2, d \div 5, e - 1)
    ELSE Fin(n, d, e)

RECURSIVE StripNum(_, _, _)
StripNum(n, d, e) ==
    IF n % 10 = 0 THEN StripNum(n \div 10, d, e + 1) ELSE Fin(n, d, e)

StripNumOf(f) == StripNum(f.n, f.d, f.e)

\* n/d * 10^e with the common divisor g of n and d taken out
Reduce(n, d, e, g) == StripNumOf(StripDen(n \div g, d \div g, e))

\* the canonical form of n/d * 10^e, d > 0
Norm(n, d, e) ==
    IF n = 0 THEN Fin(0, 1, 0) ELSE Reduce(n, d, e, GCD(AbsInt(n), d))

Zero == Fin(0, 1, 0)
One == Fin(1, 1, 0)
PosInf == [k |-> "inf", n |-> 1, d |-> 1, e |-> 0]
NegInf == [k |-> "inf", n |-> -1, d |-> 1, e |-> 0]
NaN == [k |-> "nan", n |-> 0, d |-> 1, e |-> 0]

FromInt(i) == Norm(i, 1, 0)
\* the decimal constant m * 10^e, as written in the source (0.0254 = Dec(254, -4))
Dec(m, e) == Norm(m, 1, e)

IsFin(a) == a.k = "fin"
Sign(a) == IF a.n > 0 THEN 1 ELSE IF a.n < 0 THEN -1 ELSE 0

Neg(a) == [a EXCEPT !.n = -a.n]
Fabs(a) == [a EXCEPT !.n = AbsInt(a.n)]

MinInt(i, j) == IF i < j THEN i ELSE j

\* a + b on the common exponent e, g the common divisor of the denominators
FinAddOn(a, b, e, g) ==
    Norm(a.n * Pow10(a.e - e) * (b.d \div g) + b.n * Pow10(b.e - e) * (a.d \div g),
         (a.d \div g) * b.d, e)

FinAdd(a, b) == FinAddOn(a, b, MinInt(a.e, b.e), GCD(a.d, b.d))

\* x * y * 10^e with the factors 2 of one and 5 of the other paired into tens
RECURSIVE MulTens(_, _, _, _)
MulTens(x, y, d, e) ==
    IF x % 2 = 0 /\ y % 5 = 0 THEN MulTens(x \div 2, y \div 5, d, e + 1)
    ELSE IF x % 5 = 0 /\ y % 2 = 0 THEN MulTens(x \div 5, y \div 2, d, e + 1)
    ELSE Norm(x * y, d, e)

\* a * b, g1 dividing a.n and b.d, g2 dividing b.n and a.d
FinMulBy(a, b, g1, g2) ==
    MulTens(a.n \div g1, b.n \div g2, (a.d \div g2) * (b.d \div g1), a.e + b.e)

FinMul(a, b) ==
    IF a.n = 0 \/ b.n = 0 THEN Zero
    ELSE FinMulBy(a, b, GCD(AbsInt(a.n), b.d), GCD(AbsInt(b.n), a.d))

\* 1/a for a finite and not zero
FinInv(a) == Norm(Sign(a) * a.d, AbsInt(a.n), -a.e)

\* IEEE-754 results on the non-finite values (the sign of a zero is not kept:
\* a zero divisor counts as +0)
Add(a, b) ==
    IF IsFin(a) /\ IsFin(b) THEN FinAdd(a, b)
    ELSE IF a.k = "nan" \/ b.k = "nan" THEN NaN
    ELSE IF a.k = "inf" /\ b.k = "inf" THEN (IF a.n = b.n THEN a ELSE NaN)
    ELSE IF a.k = "inf" THEN a ELSE b

Sub(a, b) == Add(a, Neg(b))

Mul(a, b) ==
    IF IsFin(a) /\ IsFin(b) THEN FinMul(a, b)
    ELSE IF a.k = "nan" \/ b.k = "nan" THEN NaN
    ELSE IF Sign(a) = 0 \/ Sign(b) = 0 THEN NaN
    ELSE IF Sign(a) * Sign(b) > 0 THEN PosInf ELSE NegInf

Div(a, b) ==
    IF a.k = "nan" \/ b.k = "nan" THEN NaN
    ELSE IF IsFin(a) /\ IsFin(b) THEN
        IF b.n # 0 THEN FinMul(a, FinInv(b))
        ELSE IF a.n = 0 THEN NaN
        ELSE IF a.n > 0 THEN PosInf ELSE NegInf
    ELSE IF a.k = "inf" /\ b.k = "inf" THEN NaN
    ELSE IF a.k = "inf" THEN (IF Sign(a) * (IF Sign(b) < 0 THEN -1 ELSE 1) > 0 THEN PosInf ELSE NegInf)
    ELSE Zero

\* a <= b for finite a, b >= 0, without forming 10^k for a large k
\* L * 10^k <= R for integers L, R >= 0
LeqScaled(L, R, k) ==
    IF L = 0 THEN TRUE
    ELSE IF R = 0 THEN FALSE
    ELSE IF k >= 0 THEN (IF k > 9 THEN FALSE ELSE L <= R \div Pow10(k))
    ELSE (IF -k > 9 THEN TRUE ELSE (L + Pow10(-k) - 1) \div Pow10(-k) <= R)

LeqNonNeg(a, b) == LeqScaled(a.n * b.d, b.n * a.d, a.e - b.e)

\* a <= b; every comparison with a NaN is false
Leq(a, b) ==
    IF a.k = "nan" \/ b.k = "nan" THEN FALSE
    ELSE IF a.k = "inf" THEN (a.n < 0 \/ (b.k = "inf" /\ b.n > 0))
    ELSE IF b.k = "inf" THEN b.n > 0
    ELSE IF Sign(a) <= 0 /\ Sign(b) >= 0 THEN TRUE
    ELSE IF Sign(a) > 0 /\ Sign(b) <= 0 THEN FALSE
    ELSE IF Sign(a) > 0 THEN LeqNonNeg(a, b)
    ELSE LeqNonNeg(Fabs(b), Fabs(a))

Lt(a, b) == Leq(a, b) /\ a # b
Geq(a, b) == Leq(b, a)
Gt(a, b) == Lt(b, a)

\* floor(a) as an integer, a finite
FloorInt(a) ==
    IF a.e >= 0 THEN (a.n * Pow10(a.e)) \div a.d
    ELSE IF -a.e > 9 THEN (IF a.n < 0 THEN -1 ELSE 0)
    ELSE a.n \div (a.d * Pow10(-a.e))

\* C round(): to the nearest integer, halves away from zero
RoundInt(a) ==
    IF a.n >= 0 THEN FloorInt(FinAdd(a, Dec(5, -1)))
    ELSE -FloorInt(FinAdd(Fabs(a), Dec(5, -1)))

\* (int64_t) a: truncation towards zero
TruncInt(a) == IF a.n >= 0 THEN FloorInt(a) ELSE -FloorInt(Fabs(a))

Epsilon == Dec(1, -14)

IsEpsilonInteger(dd) ==
    IF ~IsFin(dd) THEN FALSE
    ELSE Leq(Fabs(Sub(dd, FromInt(RoundInt(dd)))), Epsilon)

-----------------------------------------------------------------------------
(***************************************************************************)
(* Character classifier (the 256-entry look-up tables) and constants.      *)
(***************************************************************************)

\* the characters of a string, as a set
CharsOf(str) == { SubSeq(str, i, i) : i \in 1..Len(str) }

gWhitespaceDigits == {" ", "\t", "\n", "\r", "\f"}
gFirstNumericDigits == CharsOf("0123456789")
gAdditionalNumericDigits == CharsOf(".,0123456789")
gOperatorDigits == CharsOf("*+-/")
gUnitDigits == CharsOf("mMkKcfootfeetinchesyardsmiles'\"")
gAllowedHexDigits == CharsOf("0123456789abcdefABCDEF")
gAllowedBinaryDigits == CharsOf("01")

\* a variant of gDenominatorTable with the powers of two only from 16 on
gDenominatorTableCoarse == << 2, 3, 4, 5, 6, 7, 10, 12, 16, 32, 64, 128, 1000 >>

gDenominatorTable == << 2, 3, 4, 5, 6, 7, 8, 10, 12, 16, 32, 64, 128, 1000 >>

\* the 7-bit characters; any other character of a text stands for a byte
\* with the high bit set (0x80..0xFF)
AsciiChars ==
    CharsOf(" \t\n\r\f!\"#$%&'()*+,-./0123456789:;<=>?@[]^_{|}~")
        \cup CharsOf("abcdefghijklmnopqrstuvwxyzABCDEFGHIJKLMNOPQRSTUVWXYZ")

\* the end-of-input value PeekInput returns (char 0)
NUL == ""

\* std::array<bool,256>::at( charNow ): the index is charNow converted to
\* size_t, so a negative char (a signed char with the high bit set) is out
\* of range for the table and at() throws std::out_of_range
LutThrows(c, signed) == signed /\ c # NUL /\ c \notin AsciiChars
LutAt(lut, c) == c \in lut

_metricScaleInch == Dec(254, -4)
_metricScaleFoot == Dec(3048, -4)
_metricScaleYard == Dec(9144, -4)
_metricScaleMile == Dec(1609344, -3)

_impScaleThou == FromInt(1)
_impScaleInch == FromInt(1000)
_impScaleFoot == FromInt(12 * 1000)
_impScaleYard == FromInt(3 * 12 * 1000)
_impScaleMile == FromInt(5280 * 12 * 1000)

UnitTypes == {"Generic", "Metric", "Imperial"}

Unit(scale, type) == [scale |-> scale, type |-> type]
Solution(value, units) == [value |-> value, units |-> units]

\* Compiler::Compiler: precedence and number of arguments of each operator
mapOperators ==
    [ op \in {"*", "/", "+", "-", "u+", "u-"} |->
        CASE op \in {"*", "/"} -> [precedence |-> 3, arguments |-> 2]
          [] op \in {"+", "-"} -> [precedence |-> 1, arguments |-> 2]
          [] OTHER -> [precedence |-> 100, arguments |-> 1] ]

\* a function with the given names all mapped to one value
AllTo(names, v) == [ nm \in names |-> v ]

\* the members of a Compiler, as a record
This(dut, mu, mul, fr, ldp, ip) ==
    [ desiredUnitType |-> dut, mapUnits |-> mu, mapUnitLookup |-> mul,
      imperialFractions |-> fr, localeDecimalPoint |-> ldp, inputPos |-> ip ]

\* _mapUnits after SetUnitOut( type )
MapUnitsFor(type) ==
    IF type = "Imperial"
    THEN   ("mm" :> Unit(Div(Dec(1, 0), _metricScaleInch), "Metric"))
        @@ ("cm" :> Unit(Div(Dec(1, 1), _metricScaleInch), "Metric"))
        @@ ("m" :> Unit(Div(Dec(1, 3), _metricScaleInch), "Metric"))
        @@ AllTo({"Km", "km"}, Unit(Div(Dec(1, 6), _metricScaleInch), "Metric"))
        @@ ("Mm" :> Unit(Div(Dec(1, 9), _metricScaleInch), "Metric"))
        @@ AllTo({"th", "thou", "mil"}, Unit(_impScaleThou, "Imperial"))
        @@ AllTo({"in", "inch", "inches", "\""}, Unit(_impScaleInch, "Imperial"))
        @@ AllTo({"ft", "foot", "feet", "'"}, Unit(_impScaleFoot, "Imperial"))
        @@ AllTo({"yd", "yard", "yds", "yards"}, Unit(_impScaleYard, "Imperial"))
        @@ AllTo({"mi", "mile", "miles"}, Unit(_impScaleMile, "Imperial"))
    ELSE   ("mm" :> Unit(Dec(1, -3), "Metric"))
        @@ ("cm" :> Unit(Dec(1, -2), "Metric"))
        @@ ("m" :> Unit(Dec(1, 0), "Metric"))
        @@ AllTo({"Km", "km"}, Unit(Dec(1, 3), "Metric"))
        @@ ("Mm" :> Unit(Dec(1, 6), "Metric"))
        @@ AllTo({"in", "inch", "inches", "\""}, Unit(_metricScaleInch, "Imperial"))
        @@ AllTo({"ft", "foot", "feet", "'"}, Unit(_metricScaleFoot, "Imperial"))
        @@ AllTo({"yd", "yard", "yds", "yards"}, Unit(_metricScaleYard, "Imperial"))
        @@ AllTo({"mi", "mile", "miles"}, Unit(_metricScaleMile, "Imperial"))

\* _mapUnitLookup after SetUnitOut( type )
MapUnitLookupFor(type) ==
    IF type = "Imperial"
    THEN   (Div(Dec(1, -3), _metricScaleFoot) :> "mm")
        @@ (Div(Dec(1, -2), _metricScaleFoot) :> "cm")
        @@ (Div(Dec(1, 0), _metricScaleFoot) :> "m")
        @@ (Div(Dec(1, 3), _metricScaleFoot) :> "Km")
        @@ (Div(Dec(1, 6), _metricScaleFoot) :> "Mm")
        @@ (_impScaleThou :> "th")
        @@ (_impScaleInch :> "in")
        @@ (_impScaleFoot :> "ft")
        @@ (_impScaleYard :> "yd")
        @@ (_impScaleMile :> "mi")
    ELSE   (Dec(1, -3) :> "mm")
        @@ (Dec(1, -2) :> "cm")
        @@ (Dec(1, 0) :> "m")
        @@ (Dec(1, 3) :> "Km")
        @@ (Dec(1, 6) :> "Mm")
        @@ (_metricScaleInch :> "in")
        @@ (_metricScaleFoot :> "ft")
        @@ (_metricScaleYard :> "yd")
        @@ (_metricScaleMile :> "mi")

\* Compiler::SetUnitOut: both maps are cleared and filled again
SetUnitOut(this, type) ==
    [ this EXCEPT !.desiredUnitType = type,
                  !.mapUnits = MapUnitsFor(type),
                  !.mapUnitLookup = MapUnitLookupFor(type) ]

\* Compiler::DefaultUnit
DefaultUnit(this) ==
    IF this.desiredUnitType = "Generic" \/ this.desiredUnitType = "Metric"
    THEN Unit(One, this.desiredUnitType)
    ELSE Unit(_impScaleFoot, this.desiredUnitType)

\* Compiler::UnitName
UnitName(this, unit) ==
    IF unit.type = "Generic" THEN ""
    ELSE IF unit.scale \notin DOMAIN this.mapUnitLookup THEN "<error>"
    ELSE this.mapUnitLookup[unit.scale]

-----------------------------------------------------------------------------
(***************************************************************************)
(* Conversions between text and numbers (std::stod, std::stoll,            *)
(* std::to_string).                                                        *)
(***************************************************************************)

\* the value of one digit character in base 16 (and so in base 10 and 2)
HexDigitValue(c) ==
    CHOOSE v \in 0..15 :
        \/ SubSeq("0123456789abcdef", v + 1, v + 1) = c
        \/ SubSeq("0123456789ABCDEF", v + 1, v + 1) = c

\* the integer a digit string denotes in the given base
RECURSIVE DigitsValue(_, _)
DigitsValue(str, base) ==
    IF str = "" THEN 0
    ELSE DigitsValue(SubSeq(str, 1, Len(str) - 1), base) * base
            + HexDigitValue(SubSeq(str, Len(str), Len(str)))

RECURSIVE StripLeadingZeros(_)
StripLeadingZeros(str) ==
    IF str # "" /\ Head(str) = "0" THEN StripLeadingZeros(Tail(str)) ELSE str

\* the position of the first occurrence of character c in str, 0 if none
RECURSIVE IndexOf(_, _, _)
IndexOf(str, c, from) ==
    IF from > Len(str) THEN 0
    ELSE IF SubSeq(str, from, from) = c THEN from
    ELSE IndexOf(str, c, from + 1)

\* std::stod( text ) where the decimal point of the C locale is `point`:
\* digits, optionally the point and more digits. A value above DBL_MAX
\* (here: more than 309 integer digits) throws std::out_of_range.
StodAt(text, p) ==
    IF Len(StripLeadingZeros(IF p = 0 THEN text ELSE SubSeq(text, 1, p - 1))) > 309
    THEN [ok |-> FALSE, value |-> Zero]
    ELSE [ok |-> TRUE,
          value |-> IF p = 0
                    THEN Dec(DigitsValue(StripLeadingZeros(text), 10), 0)
                    ELSE Dec(DigitsValue(StripLeadingZeros(SubSeq(text, 1, p - 1)
                                            \o SubSeq(text, p + 1, Len(text))), 10),
                             -(Len(text) - p))]

Stod(text, point) == StodAt(text, IndexOf(text, point, 1))

\* std::stoll( digits, nullptr, base ) for base 16 or 2: a value above
\* LLONG_MAX = 2^63 - 1 throws std::out_of_range
StollOf(sig, base) ==
    IF IF base = 16
       THEN Len(sig) > 16 \/ (Len(sig) = 16 /\ HexDigitValue(Head(sig)) >= 8)
       ELSE Len(sig) > 63
    THEN [ok |-> FALSE, value |-> 0]
    ELSE [ok |-> TRUE, value |-> DigitsValue(sig, base)]

Stoll(digits, base) == StollOf(StripLeadingZeros(digits), base)

\* std::to_string( int64_t )
RECURSIVE NatToString(_)
NatToString(i) ==
    IF i < 10 THEN SubSeq("0123456789", i + 1, i + 1)
    ELSE NatToString(i \div 10) \o SubSeq("0123456789", (i % 10) + 1, (i % 10) + 1)

IntToString(i) == IF i < 0 THEN "-" \o NatToString(-i) ELSE NatToString(i)

RECURSIVE PadZeros(_, _)
PadZeros(str, width) == IF Len(str) >= width THEN str ELSE PadZeros("0" \o str, width)

\* std::to_string( double ): printf "%f", six digits after the point,
\* rounded to nearest
\* text without its trailing "0" characters
RECURSIVE StripTrailingZeros(_)
StripTrailingZeros(str) ==
    IF str # "" /\ SubSeq(str, Len(str), Len(str)) = "0"
    THEN StripTrailingZeros(SubSeq(str, 1, Len(str) - 1))
    ELSE str

\* a variant of DoubleToStringDigits that prints the shortest decimal text
DoubleToStringShortest(a, ip, f6) ==
    (IF a.n < 0 THEN "-" ELSE "")
        \o NatToString(IF f6 = 1000000 THEN ip + 1 ELSE ip) \o "."
        \o StripTrailingZeros(PadZeros(NatToString(IF f6 = 1000000 THEN 0 ELSE f6), 6))

\* the text of |a| from its integer part ip and its fraction rounded to
\* f6 millionths (a fraction that rounds to 1000000 carries into ip)
DoubleToStringDigits(a, ip, f6) ==
    (IF a.n < 0 THEN "-" ELSE "")
        \o NatToString(IF f6 = 1000000 THEN ip + 1 ELSE ip) \o "."
        \o PadZeros(NatToString(IF f6 = 1000000 THEN 0 ELSE f6), 6)

DoubleToStringFrom(a, ip) ==
    DoubleToStringDigits(a, ip, RoundInt(Mul(Sub(Fabs(a), FromInt(ip)), Dec(1, 6))))

DoubleToString(a) ==
    IF a.k = "nan" THEN "nan"
    ELSE IF a.k = "inf" THEN (IF a.n < 0 THEN "-inf" ELSE "inf")
    ELSE DoubleToStringFrom(a, FloorInt(Fabs(a)))

-----------------------------------------------------------------------------
(***************************************************************************)
(* Compiler::Parse: the tokenizer, a finite state machine.                 *)
(***************************************************************************)

Token(pos, type, text, value) ==
    [pos |-> pos, type |-> type, text |-> text, value |-> value]

\* Compiler::PeekInput
PeekInput(sInput, pos) ==
    IF pos >= Len(sInput) THEN NUL ELSE SubSeq(sInput, pos + 1, pos + 1)

\* the locals of Parse at its start (after SetupInput)
TokInit ==
    [ stateNow |-> "NewToken", pos |-> 0, sCurrentToken |-> "",
      tokCurrent |-> Token(0, "Unknown", "", Zero), uTokenStart |-> 0,
      uParenthesisBalance |-> 0, bDecimalPointFound |-> FALSE,
      sPrefixedNumericLiteralToken |-> "", vecOutputTokens |-> << >>,
      exit |-> "run", msg |-> "" ]

Throw(ts, stage, msg) == [ts EXCEPT !.exit = stage, !.msg = msg]
OutOfRange(ts, what) == [ts EXCEPT !.exit = "out_of_range", !.msg = what]
\* NextInput
Consume(ts) == [ts EXCEPT !.pos = @ + 1]

NotBalanced == "Parenthesis '(' & ')' not balanced"

\* a variant of TokEndOfInput that returns the tokens whatever the counter is
TokEndOfInputUnchecked(t) == [t EXCEPT !.exit = "return"]

\* NewToken at the end of the input: the parenthesis balance check
TokEndOfInput(t) ==
    IF t.uParenthesisBalance # 0
    THEN Throw(t, "Parser", NotBalanced)
    ELSE [t EXCEPT !.exit = "return"]

TokNewToken(ts, charNow, signed) ==
    LET t == [ts EXCEPT !.uTokenStart = ts.pos, !.sCurrentToken = "",
                        !.bDecimalPointFound = FALSE,
                        !.tokCurrent = Token(ts.pos, "Unknown", "", Zero)]
    IN  IF charNow = NUL THEN TokEndOfInput(t)
        ELSE IF LutThrows(charNow, signed) THEN OutOfRange(t, "array::at")
        ELSE IF LutAt(gWhitespaceDigits, charNow) THEN
            [Consume(t) EXCEPT !.stateNow = "NewToken"]
        ELSE IF LutAt(gFirstNumericDigits, charNow) THEN
            [Consume(t) EXCEPT !.sCurrentToken = charNow,
                               !.stateNow = IF charNow = "0"
                                            THEN "PrefixedNumericLiteral"
                                            ELSE "NumericLiteral",
                               !.bDecimalPointFound = FALSE]
        ELSE IF LutAt(gOperatorDigits, charNow) THEN [t EXCEPT !.stateNow = "Operator"]
        ELSE IF charNow = "(" THEN [t EXCEPT !.stateNow = "Parenthesis_Open"]
        ELSE IF charNow = ")" THEN [t EXCEPT !.stateNow = "Parenthesis_Close"]
        ELSE IF LutAt(gUnitDigits, charNow) THEN
            [Consume(t) EXCEPT !.sCurrentToken = charNow, !.stateNow = "Unit_or_Symbol"]
        ELSE Throw(t, "Parser", "Unknown character '" \o charNow \o "'")

\* the token of a numeric literal whose text converted to v (or did not)
TokLiteralValue(ts, v) ==
    IF ~v.ok THEN OutOfRange(ts, "stod/stoll")
    ELSE [ts EXCEPT !.tokCurrent = Token(ts.uTokenStart, "Literal_Numeric",
                                          ts.sCurrentToken, v.value),
                    !.stateNow = "CompleteToken"]

\* a variant of TokNumericLiteral that takes only the locale's decimal point
\* for a delimiter
TokNumericLiteralLocaleOnly(ts, charNow, this, signed) ==
    IF LutThrows(charNow, signed) THEN OutOfRange(ts, "array::at")
    ELSE IF LutAt(gFirstNumericDigits, charNow) THEN
        [Consume(ts) EXCEPT !.sCurrentToken = @ \o charNow]
    ELSE IF charNow = this.localeDecimalPoint THEN
        IF ts.bDecimalPointFound
        THEN Throw(ts, "Parser", "Bad numeric construction")
        ELSE [Consume(ts) EXCEPT !.bDecimalPointFound = TRUE,
                                 !.sCurrentToken = @ \o charNow]
    ELSE TokLiteralValue(ts, Stod(ts.sCurrentToken, this.localeDecimalPoint))

TokNumericLiteral(ts, charNow, this, signed) ==
    IF LutThrows(charNow, signed) THEN OutOfRange(ts, "array::at")
    ELSE IF LutAt(gAdditionalNumericDigits, charNow) \/ charNow = this.localeDecimalPoint THEN
        IF ~LutAt(gFirstNumericDigits, charNow) THEN
            \* a delimiter: stored as the locale's decimal point
            IF ts.bDecimalPointFound
            THEN Throw(ts, "Parser", "Bad numeric construction")
            ELSE [Consume(ts) EXCEPT !.bDecimalPointFound = TRUE,
                                     !.sCurrentToken = @ \o this.localeDecimalPoint]
        ELSE [Consume(ts) EXCEPT !.sCurrentToken = @ \o charNow]
    ELSE TokLiteralValue(ts, Stod(ts.sCurrentToken, this.localeDecimalPoint))

\* a variant of TokPrefixedNumericLiteral that takes a leading 0 for a prefix
\* only, and rejects every other character after it
TokPrefixedNumericLiteralStrict(ts, charNow) ==
    IF charNow \in {"x", "X", "b", "B"} THEN
        [Consume(ts) EXCEPT !.sCurrentToken = @ \o charNow,
                            !.sPrefixedNumericLiteralToken = "",
                            !.stateNow = IF charNow \in {"x", "X"}
                                         THEN "HexNumericLiteral"
                                         ELSE "BinNumericLiteral"]
    ELSE Throw(ts, "Parser", "Invalid prefixed numeric literal")

TokPrefixedNumericLiteral(ts, charNow) ==
    IF charNow = "x" \/ charNow = "X" THEN
        [Consume(ts) EXCEPT !.sCurrentToken = @ \o charNow,
                            !.sPrefixedNumericLiteralToken = "",
                            !.stateNow = "HexNumericLiteral"]
    ELSE IF charNow = "b" \/ charNow = "B" THEN
        [Consume(ts) EXCEPT !.sCurrentToken = @ \o charNow,
                            !.sPrefixedNumericLiteralToken = "",
                            !.stateNow = "BinNumericLiteral"]
    ELSE [ts EXCEPT !.stateNow = "NumericLiteral"]

\* double( tokCurrent.value ) of the integer std::stoll returned
StollDouble(v) == [ok |-> v.ok, value |-> FromInt(v.value)]

\* HexNumericLiteral (base 16) and BinNumericLiteral (base 2)
TokBasedNumericLiteral(ts, charNow, signed, lut, base) ==
    IF LutThrows(charNow, signed) THEN OutOfRange(ts, "array::at")
    ELSE IF LutAt(lut, charNow) THEN
        [Consume(ts) EXCEPT !.sCurrentToken = @ \o charNow,
                            !.sPrefixedNumericLiteralToken = @ \o charNow]
    ELSE IF ts.sPrefixedNumericLiteralToken = "" THEN
        Throw(ts, "Parser", "Invalid prefixed numeric literal")
    ELSE TokLiteralValue(ts, StollDouble(Stoll(ts.sPrefixedNumericLiteralToken, base)))

TokOperator(ts, charNow, signed) ==
    IF LutThrows(charNow, signed) THEN OutOfRange(ts, "array::at")
    ELSE IF LutAt(gOperatorDigits, charNow) THEN
        IF (ts.sCurrentToken \o charNow) \in DOMAIN mapOperators THEN
            [Consume(ts) EXCEPT !.sCurrentToken = @ \o charNow]
        ELSE IF ts.sCurrentToken \in DOMAIN mapOperators THEN
            [ts EXCEPT !.tokCurrent = Token(ts.uTokenStart, "Operator", ts.sCurrentToken, Zero),
                       !.stateNow = "CompleteToken"]
        ELSE [Consume(ts) EXCEPT !.sCurrentToken = @ \o charNow]
    ELSE IF ts.sCurrentToken \in DOMAIN mapOperators THEN
        [ts EXCEPT !.tokCurrent = Token(ts.uTokenStart, "Operator", ts.sCurrentToken, Zero),
                   !.stateNow = "CompleteToken"]
    ELSE Throw(ts, "Parser", "Unknown operator: " \o ts.sCurrentToken)

TokUnitOrSymbol(ts, charNow, this, signed) ==
    IF LutThrows(charNow, signed) THEN OutOfRange(ts, "array::at")
    ELSE IF LutAt(gUnitDigits, charNow) THEN
        [Consume(ts) EXCEPT !.sCurrentToken = @ \o charNow]
    ELSE IF ts.sCurrentToken \in DOMAIN this.mapUnits THEN
        [ts EXCEPT !.tokCurrent = Token(ts.uTokenStart, "Unit", ts.sCurrentToken,
                                         this.mapUnits[ts.sCurrentToken].scale),
                   !.stateNow = "CompleteToken"]
    ELSE [ts EXCEPT !.tokCurrent = Token(ts.uTokenStart, "Symbol", ts.sCurrentToken, Zero),
                    !.stateNow = "CompleteToken"]

TokParenthesisOpen(ts, charNow) ==
    [Consume(ts) EXCEPT !.sCurrentToken = @ \o charNow,
                        !.uParenthesisBalance = @ + 1,
                        !.tokCurrent = Token(ts.uTokenStart, "Parenthesis_Open",
                                             ts.sCurrentToken \o charNow, Zero),
                        !.stateNow = "CompleteToken"]

\* a variant of TokParenthesisClose that accepts every ")" and leaves the
\* unmatched ones to Solve
TokParenthesisCloseUnchecked(ts, charNow) ==
    [Consume(ts) EXCEPT !.sCurrentToken = @ \o charNow,
                        !.uParenthesisBalance = @ - 1,
                        !.tokCurrent = Token(ts.uTokenStart, "Parenthesis_Close",
                                             ts.sCurrentToken \o charNow, Zero),
                        !.stateNow = "CompleteToken"]

TokParenthesisClose(ts, charNow) ==
    IF ts.uParenthesisBalance = 0
    THEN Throw(ts, "Parser", NotBalanced)
    ELSE [Consume(ts) EXCEPT !.sCurrentToken = @ \o charNow,
                             !.uParenthesisBalance = @ - 1,
                             !.tokCurrent = Token(ts.uTokenStart, "Parenthesis_Close",
                                                  ts.sCurrentToken \o charNow, Zero),
                             !.stateNow = "CompleteToken"]

TokCompleteToken(ts) ==
    [ts EXCEPT !.vecOutputTokens = Append(@, ts.tokCurrent), !.stateNow = "NewToken"]

\* one iteration of the for ( ; ; ) loop of Parse
TokStep(ts, sInput, this, signed) ==
    LET charNow == PeekInput(sInput, ts.pos)
    IN  CASE ts.stateNow = "NewToken" -> TokNewToken(ts, charNow, signed)
          [] ts.stateNow = "NumericLiteral" -> TokNumericLiteral(ts, charNow, this, signed)
          [] ts.stateNow = "PrefixedNumericLiteral" -> TokPrefixedNumericLiteral(ts, charNow)
          [] ts.stateNow = "HexNumericLiteral" ->
                TokBasedNumericLiteral(ts, charNow, signed, gAllowedHexDigits, 16)
          [] ts.stateNow = "BinNumericLiteral" ->
                TokBasedNumericLiteral(ts, charNow, signed, gAllowedBinaryDigits, 2)
          [] ts.stateNow = "Operator" -> TokOperator(ts, charNow, signed)
          [] ts.stateNow = "Unit_or_Symbol" -> TokUnitOrSymbol(ts, charNow, this, signed)
          [] ts.stateNow = "Parenthesis_Open" -> TokParenthesisOpen(ts, charNow)
          [] ts.stateNow = "Parenthesis_Close" -> TokParenthesisClose(ts, charNow)
          [] ts.stateNow = "CompleteToken" -> TokCompleteToken(ts)

RECURSIVE TokRun(_, _, _, _)
TokRun(ts, sInput, this, signed) ==
    IF ts.exit # "run" THEN ts ELSE TokRun(TokStep(ts, sInput, this, signed), sInput, this, signed)

\* what Parse leaves when its for ( ; ; ) loop has ended in the state fin
ParseEnd(this1, sInput, fin) ==
    [this |-> [this1 EXCEPT !.inputPos = fin.pos],
     kind |-> IF fin.exit = "return" THEN "ok" ELSE fin.exit,
     msg |-> fin.msg,
     tokens |-> IF fin.exit = "return" THEN fin.vecOutputTokens ELSE << >>,
     scanned |-> fin.vecOutputTokens,
     balance |-> fin.uParenthesisBalance,
     atEnd |-> (fin.stateNow = "NewToken" /\ PeekInput(sInput, fin.pos) = NUL) ]

\* the scan of a non-empty input from SetupInput on
ParseFrom(this1, sInput, signed) ==
    ParseEnd(this1, sInput, TokRun(TokInit, sInput, this1, signed))

\* a variant of Parse without SetupInput's _inputPos = 0: the scan goes on
\* from the position the call before has left
ParseFromLeftPosition(this, sInput, envPoint, signed) ==
    IF sInput = ""
    THEN [this |-> this, kind |-> "Parser", msg |-> "No input.", tokens |-> << >>,
          scanned |-> << >>, balance |-> 0, atEnd |-> TRUE]
    ELSE ParseEnd([this EXCEPT !.localeDecimalPoint = envPoint], sInput,
                  TokRun([TokInit EXCEPT !.pos = this.inputPos], sInput,
                         [this EXCEPT !.localeDecimalPoint = envPoint], signed))

\* Compiler::Parse( sInput ) in a process whose locale has the decimal point
\* envPoint. The result: the members afterwards, how the call ended
\* ("ok" | "Parser" | "out_of_range"), the message, the tokens returned, the
\* tokens completed before the scan ended, the parenthesis counter, and
\* whether the scan ended at the end of the input.
Parse(this, sInput, envPoint, signed) ==
    IF sInput = ""
    THEN [this |-> this, kind |-> "Parser", msg |-> "No input.", tokens |-> << >>,
          scanned |-> << >>, balance |-> 0, atEnd |-> TRUE]
    ELSE ParseFrom([this EXCEPT !.localeDecimalPoint = envPoint, !.inputPos = 0],
                   sInput, signed)

-----------------------------------------------------------------------------
(***************************************************************************)
(* Compiler::Solve: shunting yard, stack evaluation, unit resolution,      *)
(* normalisation. A deque is a sequence whose head is the deque's front.   *)
(***************************************************************************)

\* one pass of NormaliseImperial's for ( ; ; ) loop (OUTPUT_TO_YARDS is 0):
\* the scale the pass sets, the scale it finds when it breaks
NormaliseImperialRule(result, normalised) ==
    LET scale == result.units.scale
    IN  IF Geq(normalised, _impScaleInch) /\ scale = _impScaleThou THEN _impScaleInch
        ELSE IF Gt(normalised, FromInt(72)) /\ scale = _impScaleInch THEN _impScaleFoot
        ELSE IF /\ Geq(normalised, FromInt(12)) /\ scale = _impScaleInch
                /\ IsEpsilonInteger(Div(result.value, _impScaleFoot)) THEN _impScaleFoot
        ELSE IF scale = _impScaleYard THEN _impScaleFoot
        ELSE IF /\ Geq(normalised, FromInt(5280)) /\ scale = _impScaleFoot
                /\ IsEpsilonInteger(Div(result.value, _impScaleMile)) THEN _impScaleMile
        ELSE IF /\ Geq(normalised, FromInt(1760)) /\ scale = _impScaleYard
                /\ IsEpsilonInteger(Div(result.value, _impScaleMile)) THEN _impScaleMile
        ELSE scale

\* NormaliseImperial's for ( ; ; ) loop
RECURSIVE NormaliseImperialLoop(_)
NormaliseImperialTo(result, sc) ==
    IF sc = result.units.scale THEN result
    ELSE NormaliseImperialLoop([result EXCEPT !.units.scale = sc])

NormaliseImperialPass(result, normalised) ==
    NormaliseImperialTo(result, NormaliseImperialRule(result, normalised))

NormaliseImperialLoop(result) ==
    NormaliseImperialPass(result, Fabs(Div(result.value, result.units.scale)))

\* Compiler::NormaliseImperial
NormaliseImperial(this, result) ==
    IF result.value = Zero THEN [result EXCEPT !.units = DefaultUnit(this)]
    ELSE NormaliseImperialLoop(result)

\* a variant of NormaliseMetricRule with the branches of OUTPUT_TO_CM 1
NormaliseMetricRuleCm(result, normalised) ==
    LET scale == result.units.scale
    IN  IF Geq(normalised, FromInt(1000)) /\ scale = FromInt(1000) THEN FromInt(1000000)
        ELSE IF Geq(normalised, FromInt(1000)) /\ scale = FromInt(1) THEN FromInt(1000)
        ELSE IF Geq(normalised, FromInt(1000)) /\ scale = Dec(1, -3) THEN FromInt(1)
        ELSE IF Geq(normalised, FromInt(100)) /\ scale = Dec(1, -3) THEN Dec(1, -2)
        ELSE IF Geq(normalised, FromInt(100)) /\ scale = Dec(1, -2) THEN FromInt(1)
        ELSE IF Lt(normalised, FromInt(1)) /\ scale = FromInt(1000000) THEN FromInt(1000)
        ELSE IF Lt(normalised, FromInt(1)) /\ scale = FromInt(1000) THEN FromInt(1)
        ELSE IF Lt(normalised, FromInt(1)) /\ scale = FromInt(1) THEN Dec(1, -2)
        ELSE IF Lt(normalised, FromInt(1)) /\ scale = Dec(1, -2) THEN Dec(1, -3)
        ELSE scale

\* one pass of NormaliseMetric's for ( ; ; ) loop (OUTPUT_TO_CM is 0): the
\* scale the pass sets, the scale it finds when it breaks
NormaliseMetricRule(result, normalised) ==
    LET scale == result.units.scale
    IN  IF Geq(normalised, FromInt(1000)) /\ scale = FromInt(1000) THEN FromInt(1000000)
        ELSE IF Geq(normalised, FromInt(1000)) /\ scale = FromInt(1) THEN FromInt(1000)
        ELSE IF Geq(normalised, FromInt(1000)) /\ scale = Dec(1, -3) THEN FromInt(1)
        ELSE IF scale = Dec(1, -2) THEN FromInt(1)
        ELSE IF Geq(normalised, FromInt(1000)) /\ scale = Dec(1, -3) THEN FromInt(1)
        ELSE IF Lt(normalised, FromInt(1)) /\ scale = FromInt(1000000) THEN FromInt(1000)
        ELSE IF Lt(normalised, FromInt(1)) /\ scale = FromInt(1000) THEN FromInt(1)
        ELSE IF Lt(normalised, FromInt(1)) /\ scale = FromInt(1) THEN Dec(1, -3)
        ELSE scale

\* NormaliseMetric's for ( ; ; ) loop
RECURSIVE NormaliseMetricLoop(_)
NormaliseMetricTo(result, sc) ==
    IF sc = result.units.scale THEN result
    ELSE NormaliseMetricLoop([result EXCEPT !.units.scale = sc])

NormaliseMetricPass(result, normalised) ==
    NormaliseMetricTo(result, NormaliseMetricRule(result, normalised))

NormaliseMetricLoop(result) ==
    NormaliseMetricPass(result, Fabs(Div(result.value, result.units.scale)))

\* Compiler::NormaliseMetric
NormaliseMetric(this, result) ==
    IF result.value = Zero THEN [result EXCEPT !.units = DefaultUnit(this)]
    ELSE NormaliseMetricLoop(result)

\* while ( !stkHolding.empty() && front is not an open parenthesis ):
\* move the front of the holding stack to the output
RECURSIVE BackFlush(_)
BackFlush(y) ==
    IF y.stkHolding # << >> /\ Head(y.stkHolding).type # "Parenthesis_Open"
    THEN BackFlush([y EXCEPT !.stkOutput = Append(@, Head(y.stkHolding)),
                             !.stkHolding = Tail(@)])
    ELSE y

\* the while loop of the operator case: pop the operators of the holding
\* stack whose precedence is at least that of op_text. A front that is
\* neither an operator nor an open parenthesis is never popped: the loop
\* does not end ("hang").
RECURSIVE PopOperators(_, _)
PopOperators(y, op_text) ==
    IF y.stkHolding # << >> /\ Head(y.stkHolding).type # "Parenthesis_Open" THEN
        IF Head(y.stkHolding).type = "Operator" THEN
            IF mapOperators[Head(y.stkHolding).text].precedence
                    >= mapOperators[op_text].precedence
            THEN PopOperators([y EXCEPT !.stkOutput = Append(@, Head(y.stkHolding)),
                                        !.stkHolding = Tail(@)], op_text)
            ELSE y
        ELSE [y EXCEPT !.exit = "hang"]
    ELSE y

\* the unary operator check: "+" or "-" is upgraded to "u+" or "u-"
OpText(token, tokPrevious, pass) ==
    IF (token.text = "-" \/ token.text = "+")
       /\ ( \/ ( /\ tokPrevious.type # "Literal_Numeric"
                 /\ tokPrevious.type # "Unit"
                 /\ tokPrevious.type # "Parenthesis_Close" )
            \/ pass = 0 )
    THEN "u" \o token.text
    ELSE token.text

YardInit ==
    [ stkHolding |-> << >>, stkOutput |-> << >>,
      tokPrevious |-> Token(0, "Literal_Numeric", "", Zero),
      pass |-> 0, bExplicitUnits |-> FALSE, exit |-> "run", msg |-> "" ]

\* a variant of YardStep that keeps Unit tokens on the holding stack, as it
\* keeps the operators
YardStepHoldingUnits(y, token) ==
    IF token.type = "Unit"
    THEN [y EXCEPT !.bExplicitUnits = TRUE, !.stkHolding = << token >> \o @,
                   !.tokPrevious = token, !.pass = @ + 1]
    ELSE IF token.type = "Operator"
    THEN [PopOperators(y, OpText(token, y.tokPrevious, y.pass))
            EXCEPT !.stkHolding = << Token(0, "Operator", token.text, Zero) >> \o @,
                   !.pass = @ + 1]
    ELSE [y EXCEPT !.stkOutput = Append(@, token), !.tokPrevious = token,
                   !.pass = @ + 1]

\* a variant of YardStep that passes over a Symbol token
YardStepSkippingSymbols(y, token) ==
    IF token.type = "Symbol" THEN [y EXCEPT !.pass = @ + 1]
    ELSE IF token.type = "Literal_Numeric" THEN
        [y EXCEPT !.stkOutput = Append(@, token), !.tokPrevious = token, !.pass = @ + 1]
    ELSE IF token.type = "Parenthesis_Open" THEN
        [y EXCEPT !.stkHolding = << token >> \o @, !.tokPrevious = token, !.pass = @ + 1]
    ELSE IF token.type = "Parenthesis_Close" THEN
        IF y.stkHolding = << >>
        THEN [y EXCEPT !.exit = "Solver", !.msg = "Unexpected close parenthesis"]
        ELSE LET f == BackFlush(y)
             IN  IF f.stkHolding = << >>
                 THEN [f EXCEPT !.exit = "Solver", !.msg = "No open parenthesis found"]
                 ELSE [f EXCEPT !.stkHolding = Tail(@),
                                !.tokPrevious = Token(0, "Parenthesis_Close", "", Zero),
                                !.pass = @ + 1]
    ELSE IF token.type = "Unit" THEN
        [y EXCEPT !.bExplicitUnits = TRUE, !.stkOutput = Append(@, token),
                  !.tokPrevious = token, !.pass = @ + 1]
    ELSE LET op_text == OpText(token, y.tokPrevious, y.pass)
             f == PopOperators(y, op_text)
             pushed == Token(0, "Operator", op_text, Zero)
         IN  IF f.exit # "run" THEN f
             ELSE [f EXCEPT !.stkHolding = << pushed >> \o @, !.tokPrevious = pushed,
                            !.pass = @ + 1]

\* the body of for ( const auto& token : vTokens )
YardStep(y, token) ==
    IF token.type = "Literal_Numeric" THEN
        [y EXCEPT !.stkOutput = Append(@, token), !.tokPrevious = token, !.pass = @ + 1]
    ELSE IF token.type = "Parenthesis_Open" THEN
        [y EXCEPT !.stkHolding = << token >> \o @, !.tokPrevious = token, !.pass = @ + 1]
    ELSE IF token.type = "Parenthesis_Close" THEN
        IF y.stkHolding = << >>
        THEN [y EXCEPT !.exit = "Solver", !.msg = "Unexpected close parenthesis"]
        ELSE LET f == BackFlush(y)
             IN  IF f.stkHolding = << >>
                 THEN [f EXCEPT !.exit = "Solver", !.msg = "No open parenthesis found"]
                 ELSE [f EXCEPT !.stkHolding = Tail(@),
                                !.tokPrevious = Token(0, "Parenthesis_Close", "", Zero),
                                !.pass = @ + 1]
    ELSE IF token.type = "Unit" THEN
        [y EXCEPT !.bExplicitUnits = TRUE, !.stkOutput = Append(@, token),
                  !.tokPrevious = token, !.pass = @ + 1]
    ELSE IF token.type = "Operator" THEN
        LET op_text == OpText(token, y.tokPrevious, y.pass)
            f == PopOperators(y, op_text)
            pushed == Token(0, "Operator", op_text, Zero)
        IN  IF f.exit # "run" THEN f
            ELSE [f EXCEPT !.stkHolding = << pushed >> \o @, !.tokPrevious = pushed,
                           !.pass = @ + 1]
    ELSE [y EXCEPT !.exit = "Solver", !.msg = "Unsupported Token"]

RECURSIVE YardRun(_, _, _)
YardRun(y, vTokens, i) ==
    IF y.exit # "run" \/ i > Len(vTokens) THEN y
    ELSE YardRun(YardStep(y, vTokens[i]), vTokens, i + 1)

\* the shunting yard: the postfix sequence, after the holding stack is drained
YardDrain(y) ==
    IF y.exit # "run" THEN y
    ELSE [y EXCEPT !.stkOutput = @ \o y.stkHolding, !.stkHolding = << >>]

ShuntingYard(vTokens) == YardDrain(YardRun(YardInit, vTokens, 1))

GenericUnit == Unit(One, "Generic")

\* a variant of BinaryOn that treats every operand as a plain number and
\* adds or subtracts the numbers typed
BinaryOnTyped(text, mem0, mem1, desired, v0, v1) ==
    IF text = "/" THEN Solution(Div(v1, v0), Unit(One, desired))
    ELSE IF text = "*" THEN Solution(Mul(mem1.value, mem0.value), Unit(One, desired))
    ELSE IF text = "+" THEN Solution(Mul(Add(v1, v0), mem1.units.scale), mem1.units)
    ELSE IF text = "-" THEN Solution(Mul(Sub(v1, v0), mem1.units.scale), mem1.units)
    ELSE Solution(Zero, GenericUnit)

\* a variant of BinaryOn whose "/" by a Generic divisor keeps the unit of the
\* dividend
BinaryOnDividend(text, mem0, mem1, desired, v0, v1) ==
    IF text = "/" THEN
        IF mem0.units.type # "Generic"
        THEN Solution(Mul(Div(v1, v0), mem0.units.scale), mem0.units)
        ELSE IF mem1.units.type # "Generic"
        THEN Solution(Mul(Div(v1, v0), mem1.units.scale), mem1.units)
        ELSE Solution(Div(v1, v0), Unit(One, desired))
    ELSE IF text = "*" THEN
        Solution(Mul(mem1.value, mem0.value), Unit(One, desired))
    ELSE IF text = "+" THEN
        IF mem0.units.type = "Generic"
        THEN Solution(Mul(Add(v1, v0), mem1.units.scale), mem1.units)
        ELSE IF mem1.units.type = "Generic"
        THEN Solution(Mul(Add(v1, v0), mem0.units.scale), mem0.units)
        ELSE Solution(Add(mem1.value, mem0.value), GenericUnit)
    ELSE IF text = "-" THEN
        IF mem0.units.type = "Generic"
        THEN Solution(Mul(Sub(v1, v0), mem1.units.scale), mem1.units)
        ELSE IF mem1.units.type = "Generic"
        THEN Solution(Mul(Sub(v1, v0), mem0.units.scale), mem0.units)
        ELSE Solution(Add(mem1.value, mem0.value), GenericUnit)
    ELSE Solution(Zero, GenericUnit)

\* a variant of BinaryOn whose "-" on two operands with units is the
\* difference of their values
BinaryOnDifference(text, mem0, mem1, desired, v0, v1) ==
    IF text = "/" THEN
        IF mem0.units.type # "Generic"
        THEN Solution(Mul(Div(v1, v0), mem0.units.scale), mem0.units)
        ELSE Solution(Div(v1, v0), Unit(One, desired))
    ELSE IF text = "*" THEN
        Solution(Mul(mem1.value, mem0.value), Unit(One, desired))
    ELSE IF text = "+" THEN
        IF mem0.units.type = "Generic"
        THEN Solution(Mul(Add(v1, v0), mem1.units.scale), mem1.units)
        ELSE IF mem1.units.type = "Generic"
        THEN Solution(Mul(Add(v1, v0), mem0.units.scale), mem0.units)
        ELSE Solution(Add(mem1.value, mem0.value), GenericUnit)
    ELSE IF text = "-" THEN
        IF mem0.units.type = "Generic"
        THEN Solution(Mul(Sub(v1, v0), mem1.units.scale), mem1.units)
        ELSE IF mem1.units.type = "Generic"
        THEN Solution(Mul(Sub(v1, v0), mem0.units.scale), mem0.units)
        ELSE Solution(Sub(mem1.value, mem0.value), GenericUnit)
    ELSE Solution(Zero, GenericUnit)

\* the result of a binary operator; mem0 was popped first (the right operand);
\* v0 and v1 are the operands divided by the scale of their units
BinaryOn(text, mem0, mem1, desired, v0, v1) ==
    IF text = "/" THEN
        IF mem0.units.type # "Generic"
        THEN Solution(Mul(Div(v1, v0), mem0.units.scale), mem0.units)
        ELSE Solution(Div(v1, v0), Unit(One, desired))
    ELSE IF text = "*" THEN
        Solution(Mul(mem1.value, mem0.value), Unit(One, desired))
    ELSE IF text = "+" THEN
        IF mem0.units.type = "Generic"
        THEN Solution(Mul(Add(v1, v0), mem1.units.scale), mem1.units)
        ELSE IF mem1.units.type = "Generic"
        THEN Solution(Mul(Add(v1, v0), mem0.units.scale), mem0.units)
        ELSE Solution(Add(mem1.value, mem0.value), GenericUnit)
    ELSE IF text = "-" THEN
        IF mem0.units.type = "Generic"
        THEN Solution(Mul(Sub(v1, v0), mem1.units.scale), mem1.units)
        ELSE IF mem1.units.type = "Generic"
        THEN Solution(Mul(Sub(v1, v0), mem0.units.scale), mem0.units)
        ELSE Solution(Add(mem1.value, mem0.value), GenericUnit)
    ELSE Solution(Zero, GenericUnit)

Binary(text, mem0, mem1, desired) ==
    BinaryOn(text, mem0, mem1, desired,
             Div(mem0.value, mem0.units.scale), Div(mem1.value, mem1.units.scale))

\* the result of a unary operator
Unary(text, mem0) ==
    IF text = "u+" THEN mem0
    ELSE IF text = "u-" THEN Solution(Neg(mem0.value), mem0.units)
    ELSE Solution(Zero, GenericUnit)

\* _mapUnits[ name ]: std::unordered_map::operator[] inserts a
\* default-constructed Unit when the key is absent
MapUnitsIndex(mu, name) ==
    IF name \in DOMAIN mu THEN mu ELSE mu @@ (name :> GenericUnit)

SolveInit(mu) == [ stkSolve |-> << >>, mapUnits |-> mu, exit |-> "run", msg |-> "" ]

\* the body of for ( const auto& inst : stkOutput )
SolveStep(v, inst, desired) ==
    IF inst.type = "Literal_Numeric" THEN
        [v EXCEPT !.stkSolve = << Solution(inst.value, GenericUnit) >> \o @]
    ELSE IF inst.type = "Unit" THEN
        IF v.stkSolve = << >>
        THEN [v EXCEPT !.exit = "Solver", !.msg = "Expression is malformed"]
        ELSE LET mem == Head(v.stkSolve)
                 mu == MapUnitsIndex(v.mapUnits, inst.text)
                 result == Solution(Mul(mem.value, inst.value), mu[inst.text])
             IN  [v EXCEPT !.mapUnits = mu, !.stkSolve = << result >> \o Tail(@)]
    ELSE IF inst.type = "Operator" THEN
        LET op == mapOperators[inst.text]
        IN  IF Len(v.stkSolve) < op.arguments
            THEN [v EXCEPT !.exit = "Solver", !.msg = "Expression is malformed"]
            ELSE IF op.arguments = 2
            THEN [v EXCEPT !.stkSolve =
                    << Binary(inst.text, v.stkSolve[1], v.stkSolve[2], desired) >>
                        \o Tail(Tail(@))]
            ELSE [v EXCEPT !.stkSolve = << Unary(inst.text, v.stkSolve[1]) >> \o Tail(@)]
    ELSE [v EXCEPT !.exit = "Solver", !.msg = "Unexpected Token"]

RECURSIVE SolveRun(_, _, _, _)
SolveRun(v, stkOutput, i, desired) ==
    IF v.exit # "run" \/ i > Len(stkOutput) THEN v
    ELSE SolveRun(SolveStep(v, stkOutput[i], desired), stkOutput, i + 1, desired)

\* a variant of ResolveUnits that carries the previous value on
ResolveUnitsFromValue(result, bExplicitUnits, pPrev, desired) ==
    IF bExplicitUnits THEN result
    ELSE IF pPrev = << >> \/ pPrev[1].units.type = "Generic"
    THEN Solution(Mul(result.value, One), Unit(One, desired))
    ELSE Solution(Add(pPrev[1].value, Mul(result.value, pPrev[1].units.scale)),
                  pPrev[1].units)

\* "No units were explicitly specified?": pPrev is << >> for nullptr,
\* << s >> for a pointer to the Solution s
ResolveUnits(result, bExplicitUnits, pPrev, desired) ==
    IF bExplicitUnits THEN result
    ELSE IF pPrev = << >> \/ pPrev[1].units.type = "Generic"
    THEN Solution(Mul(result.value, One), Unit(One, desired))
    ELSE Solution(Mul(result.value, pPrev[1].units.scale), pPrev[1].units)

\* a variant of ConvertUnits that converts nothing
ConvertUnitsKept(result, desired) == result

\* "Convert?"
ConvertUnits(result, desired) ==
    IF result.units.type # desired
    THEN [result EXCEPT !.units = Unit(One, desired)]
    ELSE result

\* "Try to normalise the result into friendly values."
Normalise(this, result) ==
    IF this.desiredUnitType = "Imperial" THEN NormaliseImperial(this, result)
    ELSE IF this.desiredUnitType = "Metric" THEN NormaliseMetric(this, result)
    ELSE result

NoSolution == Solution(Zero, GenericUnit)

\* after the evaluation loop: the size check of the solve stack, then unit
\* resolution, conversion and normalisation
SolveStack(this1, y, v, pPrev) ==
    IF v.exit # "run"
    THEN [this |-> this1, kind |-> v.exit, msg |-> v.msg, solution |-> NoSolution,
          bare |-> NoSolution]
    ELSE IF Len(v.stkSolve) # 1
    THEN [this |-> this1, kind |-> "Solver", msg |-> "Indeterminate Expression",
          solution |-> NoSolution, bare |-> NoSolution]
    ELSE [this |-> this1, kind |-> "Solution", msg |-> "",
          solution |->
            Normalise(this1,
                ConvertUnits(
                    ResolveUnits(Head(v.stkSolve), y.bExplicitUnits, pPrev,
                                 this1.desiredUnitType),
                    this1.desiredUnitType)),
          bare |-> Head(v.stkSolve)]

SolveEvaluated(this, y, v, pPrev) ==
    SolveStack([this EXCEPT !.mapUnits = v.mapUnits], y, v, pPrev)

SolveYard(this, y, pPrev) ==
    IF y.exit # "run"
    THEN [this |-> this, kind |-> y.exit, msg |-> y.msg, solution |-> NoSolution,
          bare |-> NoSolution]
    ELSE SolveEvaluated(this, y,
            SolveRun(SolveInit(this.mapUnits), y.stkOutput, 1, this.desiredUnitType),
            pPrev)

\* Compiler::Solve( vTokens, pPrevSolution ). The result: the members
\* afterwards, how the call ended ("Solution" | "Solver" | "hang"), the
\* message, the Solution returned, and the value left on the solve stack.
Solve(this, vTokens, pPrev) == SolveYard(this, ShuntingYard(vTokens), pPrev)

EvalSolved(p, r) ==
    [this |-> r.this, kind |-> r.kind, msg |-> r.msg, solution |-> r.solution,
     bare |-> r.bare, tokens |-> p.tokens, parse |-> p]

EvalParsed(p, pPrev) ==
    IF p.kind # "ok"
    THEN [this |-> p.this, kind |-> p.kind, msg |-> p.msg, solution |-> NoSolution,
          bare |-> NoSolution, tokens |-> p.tokens, parse |-> p]
    ELSE EvalSolved(p, Solve(p.this, p.tokens, pPrev))

\* Compiler::Eval( sInput, pPrevSolution )
Eval(this, sInput, pPrev, envPoint, signed) ==
    EvalParsed(Parse(this, sInput, envPoint, signed), pPrev)

-----------------------------------------------------------------------------
(***************************************************************************)
(* Compiler::Format                                                        *)
(***************************************************************************)

\* the index of the first denominator of gDenominatorTable, from index i on,
\* for which frac * denominator is epsilon-integer; 0 if there is none
RECURSIVE FirstDenominator(_, _)
FirstDenominator(frac, i) ==
    IF i > Len(gDenominatorTable) THEN 0
    ELSE IF IsEpsilonInteger(Mul(frac, FromInt(gDenominatorTable[i]))) THEN i
    ELSE FirstDenominator(frac, i + 1)

\* int( frac * denom ) where frac * denom is within epsilon of an integer.
\* The doubles of the code are binary: when denom is a power of two and the
\* product of the values as this model has them is that integer exactly, the
\* operations of Format on them are exact and so is the product. Otherwise
\* frac is a rounded double, the product lies just below or just above the
\* integer, and the conversion truncates it to the integer below or to the
\* integer: `low` says on which side it fell (73 in, 6 + 1/12 ft, gives
\* "6ft+0in" in an x86-64 build; 77 in gives "6ft+5in").
Numerator(frac, denom, low) ==
    IF low /\ ~(denom \in {2, 4, 8, 16, 32, 64, 128}
                    /\ Mul(frac, FromInt(denom))
                            = FromInt(RoundInt(Mul(frac, FromInt(denom)))))
    THEN RoundInt(Mul(frac, FromInt(denom))) - 1
    ELSE RoundInt(Mul(frac, FromInt(denom)))

\* the text of the fraction branch, for the matching denominator denom
FormatFraction(this, result, normalValue, normalValueAbsInt, frac, denom, feetInches, low) ==
    (IF normalValueAbsInt # 0
     THEN IntToString(TruncInt(normalValue))
            \o (IF feetInches THEN UnitName(this, result.units) ELSE "")
            \o (IF Lt(normalValue, Zero) THEN "-" ELSE "+")
     ELSE "")
        \o IntToString(Numerator(frac, denom, low))
        \o (IF feetInches
            THEN UnitName(this, Unit(_impScaleInch, "Imperial"))
            ELSE "/" \o IntToString(denom) \o UnitName(this, result.units))

\* di is the index of the matching denominator, 0 if no denominator matches
FormatDenominator(this, result, normalValue, normalValueAbsInt, frac, di, low) ==
    IF di # 0
    THEN FormatFraction(this, result, normalValue, normalValueAbsInt, frac,
                        gDenominatorTable[di],
                        gDenominatorTable[di] = 12 /\ result.units.scale = _impScaleFoot,
                        low)
    ELSE DoubleToString(normalValue) \o UnitName(this, result.units)

FormatImperial(this, result, normalValue, normalValueAbsInt, frac, low) ==
    FormatDenominator(this, result, normalValue, normalValueAbsInt, frac,
                      FirstDenominator(frac, 1), low)

FormatValue(this, result, normalValue, normalValueAbsInt, low) ==
    IF ~IsFin(normalValue)
    THEN DoubleToString(normalValue) \o UnitName(this, result.units)
    ELSE IF IsEpsilonInteger(normalValue)
    THEN IntToString(RoundInt(normalValue)) \o UnitName(this, result.units)
    ELSE IF result.units.type = "Imperial" /\ this.imperialFractions
    THEN FormatImperial(this, result, normalValue, normalValueAbsInt,
                        Sub(Fabs(normalValue), FromInt(normalValueAbsInt)), low)
    ELSE DoubleToString(normalValue) \o UnitName(this, result.units)

FormatNormal(this, result, normalValue, low) ==
    FormatValue(this, result, normalValue,
                IF IsFin(normalValue) THEN FloorInt(Fabs(normalValue)) ELSE 0, low)

\* Compiler::Format( result ), with the side on which its product
\* frac * denom fell
Format(this, result, low) ==
    FormatNormal(this, result, Div(result.value, result.units.scale), low)

-----------------------------------------------------------------------------
(***************************************************************************)
(* The state machine: a caller using one Compiler through its public       *)
(* interface. `call` records the operation that has just returned.         *)
(***************************************************************************)

this == This(desiredUnitType, mapUnits, mapUnitLookup, imperialFractions,
             localeDecimalPoint, inputPos)

Members(t) ==
    /\ desiredUnitType' = t.desiredUnitType
    /\ mapUnits' = t.mapUnits
    /\ mapUnitLookup' = t.mapUnitLookup
    /\ imperialFractions' = t.imperialFractions
    /\ localeDecimalPoint' = t.localeDecimalPoint
    /\ inputPos' = t.inputPos

NoCall ==
    [ op |-> "none", input |-> "", prev |-> << >>, point |-> ".", kind |-> "",
      msg |-> "", solution |-> NoSolution, bare |-> NoSolution, tokens |-> << >>,
      scanned |-> << >>, atEnd |-> FALSE, balance |-> 0, text |-> "",
      first |-> NoSolution, firstTokens |-> << >>, entryPos |-> 0 ]

\* the members right after Compiler::Compiler()
Constructed ==
    SetUnitOut(This("Metric", << >>, << >>, TRUE, ".", 0), "Generic")

Idle == call.op = "none"


\* the strings of length n over the characters of alphabet
RECURSIVE StringsOfLen(_, _)
StringsOfLen(alphabet, n) ==
    IF n = 0 THEN {""}
    ELSE { str \o c : str \in StringsOfLen(alphabet, n - 1), c \in alphabet }

\* the longest text of the exhaustive family of inputs
MaxLen == 3

ShortAlphabet == {"2", "+", "-", "*", "(", ")", "'", " "}

ShortTexts == UNION { StringsOfLen(ShortAlphabet, n) : n \in 1..MaxLen }

\* expressions of the documentation and of the claims
ExampleTexts ==
    { "", "5m + 3ft", "3ft + 5m", "5mm + 3mm", "2in + 1cm", "1+2)", "(1+2", "(1+2)",
      "1)", "((2)", "0z9", "0m", "0 m", "2m", "2 m", "m", "m2", "2mm", "2 + 2m", "2m * 2", "-2m", "(2m)", "0x1F", "0b101", "0x", "0xFFFFFFFFFFFFFFFFF",
      "0x8000000000000000", "1é", "é", "(é",
      "1/8in", "0.333in", "0.3333in", "0.125in", "3/4in", "1.5ft", "5mm", "5in",
      "1.2345678m", "1.5m", "2.25mm", "12cm", "2th", "1mi", "7ft",
      "+5", "5", "2*3", "8/4", "2*3+1", "1.5", "1,5", "1.5.2", "5 mmm", "--2",
      "3 - - - 2", "2*--3", "-+2",
      "-0.125in", "-1.125in", "-0.5", "-1.5ft", "-13in",
      "2*3 + 5mm", "6 + 5mm", "8/4 + 5mm", "2 + 5mm",
      "73in", "77in", "-73in", "6.5ft", "1ft+1in",
      "5m - 3m", "3m - 5m", "5m - 3", "5 - 3m", "2mm - 5", "5m - 3ft", "5in - 3in",
      "6mm / 2", "6 / 2mm", "6mm / 2mm", "6m / 2mm", "6ft / 2", "6in / 2in", "6mm / 0",
      "5mm + 2", "5mm + 3cm", "3cm + 5mm", "5in + 3ft", "2 + 5in",
      "8-3-2", "8/4/2", "2+3*4", "(2+3)*4", "8-(3-2)", "8/(4/2)", "2*2-2*2", "8/4 - 2/2",
      "2*3 - 4", "1+2*3-4/2", "2-2*2", "0/0", "6in", "0.5ft", "36in", "1yd",
      "mmm", "mmm 5", "5 + mmm", "(mmm)", "5 mmm +", "5 mmm z", "mmm)", "2thou",
      "2 k 3", "* mmm",
      "6mm / 2", "5mm - 3mm" }

\* previous Solutions a caller passes: 0.12 m shown in m and in mm, 7 m,
\* a length in feet, a unit-less 3
PrevSamples ==
    { << Solution(Dec(12, -2), Unit(One, "Metric")) >>,
      << Solution(Dec(12, -2), Unit(Dec(1, -3), "Metric")) >>,
      << Solution(FromInt(7), Unit(One, "Metric")) >>,
      << Solution(FromInt(24000), Unit(_impScaleFoot, "Imperial")) >>,
      << Solution(FromInt(3), GenericUnit) >> }

\* the expressions evaluated with each of the previous Solutions
PrevTexts == { "+5", "5", "2*3", "8/4", "2*3+1", "1.5", "-2", "2-2", "5mm", "(1+2" }

\* the expressions evaluated in a locale whose decimal point is ","
LocaleTexts == { "1,5", "1.5", "1,5,2", "2,25mm", "5m + 3ft" }

\* lengths of a kilometre and more: in thou they take more digits than the
\* integers of this model hold, so they are evaluated in the other two systems
LargeMetricTexts == { "5km", "1500m", "999m + 1m", "2000000mm" }

\* the calls eval( text, previous ) of the probing specification, each with
\* the decimal point of the locale it is made in
\* previous Solutions at the scales of the two unit tables, and the
\* unit-less expressions evaluated with those of the active output system
ScaleSamples ==
    { << Solution(Zero, Unit(Dec(1, -3), "Metric")) >>,
      << Solution(Zero, Unit(Dec(1, -2), "Metric")) >>,
      << Solution(Zero, Unit(One, "Metric")) >>,
      << Solution(Zero, Unit(Dec(1, 3), "Metric")) >>,
      << Solution(Zero, Unit(Dec(1, 6), "Metric")) >>,
      << Solution(Zero, Unit(_impScaleThou, "Imperial")) >>,
      << Solution(Zero, Unit(_impScaleInch, "Imperial")) >>,
      << Solution(Zero, Unit(_impScaleFoot, "Imperial")) >>,
      << Solution(Zero, Unit(_impScaleYard, "Imperial")) >>,
      << Solution(Zero, Unit(_impScaleMile, "Imperial")) >> }

ScaleTexts == { "0", "0.5", "1", "12", "60", "-60", "1000", "1500", "0/0", "1/0" }

ProbeCalls(type) ==
    { << t, << >>, "." >> : t \in ShortTexts \cup ExampleTexts }
        \cup { << t, pv, "." >> :
                    t \in ScaleTexts, pv \in { q \in ScaleSamples : q[1].units.type = type } }
        \cup { << t, << >>, "." >> :
                  t \in IF type = "Imperial" THEN {} ELSE LargeMetricTexts }
        \cup { << t, pv, "." >> : t \in PrevTexts, pv \in PrevSamples }
        \cup { << t, << >>, "," >> : t \in LocaleTexts }

\* the calls of the caller of the main specification
CoreTexts == { "5m + 3ft", "(1+2", "1é", "2th" }
CoreCalls == { << t, << >>, "." >> : t \in CoreTexts }
ChainTexts == { "+5", "2mm" }
ParseTexts == { "1mm", "2th", "1)" }


HasUnitToken(tokens) == \E i \in 1..Len(tokens) : tokens[i].type = "Unit"

EvalRecord(op, t, pv, pt, r) ==
    [ NoCall EXCEPT !.op = op, !.input = t, !.prev = pv, !.point = pt,
                    !.kind = r.kind, !.msg = r.msg, !.solution = r.solution,
                    !.bare = r.bare, !.tokens = r.tokens,
                    !.scanned = r.parse.scanned,
                    !.atEnd = r.parse.atEnd, !.balance = r.parse.balance,
                    !.entryPos = inputPos ]

\* compiler.Eval( t, pv ) by a caller that keeps its own previous Solution
\* Eval returns (or throws) r: the members and the caller's record of it
EvalReturns(t, pv, pt, r) ==
    /\ Members(r.this)
    /\ call' = EvalRecord("Eval", t, pv, pt, r)

EvalCall(t, pv, pt) ==
    /\ Idle
    /\ EvalReturns(t, pv, pt, Eval(this, t, pv, pt, charSigned))
    /\ UNCHANGED << charSigned, prevSolution, heldTokens >>

\* the loop body of main(): prevSolution = compiler.Eval( t, &prevSolution ),
\* the assignment taking place only when Eval returns
ChainReturns(t, pt, r) ==
    /\ Members(r.this)
    /\ call' = EvalRecord("EvalAssign", t, << prevSolution >>, pt, r)
    /\ prevSolution' = IF r.kind = "Solution" THEN r.solution ELSE prevSolution

EvalChained(t, pt) ==
    /\ Idle
    /\ ChainReturns(t, pt, Eval(this, t, << prevSolution >>, pt, charSigned))
    /\ UNCHANGED << charSigned, heldTokens >>

\* main(): prevSolution.value = 0; prevSolution.units = compiler.DefaultUnit()
SeedPrev ==
    /\ Idle
    /\ prevSolution # Solution(Zero, DefaultUnit(this))
    /\ prevSolution' = Solution(Zero, DefaultUnit(this))
    /\ call' = [NoCall EXCEPT !.op = "SeedPrev"]
    /\ UNCHANGED << desiredUnitType, mapUnits, mapUnitLookup, imperialFractions,
                    localeDecimalPoint, inputPos, charSigned, heldTokens >>

\* compiler.Format( solution ) of the Solution Eval has just returned
FormatCall ==
    /\ call.op \in {"Eval", "EvalAssign"}
    /\ call.kind = "Solution"
    /\ \E low \in BOOLEAN :
            call' = [call EXCEPT !.op = "Format", !.text = Format(this, call.solution, low)]
    /\ UNCHANGED << desiredUnitType, mapUnits, mapUnitLookup, imperialFractions,
                    localeDecimalPoint, inputPos, charSigned, prevSolution, heldTokens >>

\* compiler.Eval( text, nullptr ) of the text Format has just returned
ReEvalReturns(r) ==
    /\ Members(r.this)
    /\ call' = [call EXCEPT !.op = "ReEval", !.first = call.solution,
                            !.firstTokens = call.tokens,
                            !.kind = r.kind, !.msg = r.msg,
                            !.solution = r.solution, !.tokens = r.tokens]

ReEvalCall ==
    /\ call.op = "Format"
    /\ ReEvalReturns(Eval(this, call.text, << >>, call.point, charSigned))
    /\ UNCHANGED << charSigned, prevSolution, heldTokens >>

SetUnitOutCall(type) ==
    /\ Idle
    /\ Members(SetUnitOut(this, type))
    /\ call' = [NoCall EXCEPT !.op = "SetUnitOut", !.input = type]
    /\ UNCHANGED << charSigned, prevSolution, heldTokens >>

\* Compiler::SetImperialFractions
SetImperialFractionsCall(enable) ==
    /\ Idle
    /\ imperialFractions # enable
    /\ imperialFractions' = enable
    /\ call' = [NoCall EXCEPT !.op = "SetImperialFractions"]
    /\ UNCHANGED << desiredUnitType, mapUnits, mapUnitLookup, localeDecimalPoint,
                    inputPos, charSigned, prevSolution, heldTokens >>

\* vTokens = compiler.Parse( t ): the caller keeps the tokens
ParseReturns(t, pt, r) ==
    /\ Members(r.this)
    /\ heldTokens' = IF r.kind = "ok" THEN r.tokens ELSE heldTokens
    /\ call' = [NoCall EXCEPT !.op = "Parse", !.input = t, !.point = pt,
                              !.kind = r.kind, !.msg = r.msg, !.tokens = r.tokens,
                              !.scanned = r.scanned,
                              !.atEnd = r.atEnd, !.balance = r.balance]

ParseCall(t, pt) ==
    /\ Idle
    /\ ParseReturns(t, pt, Parse(this, t, pt, charSigned))
    /\ UNCHANGED << charSigned, prevSolution >>

\* compiler.Solve( vTokens, nullptr ) on the tokens the caller holds
SolveReturns(r) ==
    /\ Members(r.this)
    /\ call' = [NoCall EXCEPT !.op = "Solve", !.kind = r.kind, !.msg = r.msg,
                              !.solution = r.solution, !.bare = r.bare,
                              !.tokens = heldTokens]

SolveCall ==
    /\ Idle
    /\ heldTokens # << >>
    /\ SolveReturns(Solve(this, heldTokens, << >>))
    /\ UNCHANGED << charSigned, prevSolution, heldTokens >>

\* the caller goes on to its next call
Return ==
    /\ ~Idle
    /\ call' = NoCall
    /\ UNCHANGED << desiredUnitType, mapUnits, mapUnitLookup, imperialFractions,
                    localeDecimalPoint, inputPos, charSigned, prevSolution, heldTokens >>

\* the variables hold the members t
MembersAre(t) ==
    /\ desiredUnitType = t.desiredUnitType
    /\ mapUnits = t.mapUnits
    /\ mapUnitLookup = t.mapUnitLookup
    /\ imperialFractions = t.imperialFractions
    /\ localeDecimalPoint = t.localeDecimalPoint
    /\ inputPos = t.inputPos

Init ==
    /\ MembersAre(Constructed)
    /\ charSigned \in BOOLEAN
    /\ prevSolution = Solution(Zero, GenericUnit)
    /\ heldTokens = << >>
    /\ call = NoCall

Next ==
    \/ \E type \in UnitTypes : SetUnitOutCall(type)
    \/ \E enable \in BOOLEAN : SetImperialFractionsCall(enable)
    \/ \E c \in CoreCalls : EvalCall(c[1], c[2], c[3])
    \/ \E t \in ChainTexts : EvalChained(t, ".")
    \/ SeedPrev
    \/ \E t \in ParseTexts : ParseCall(t, ".")
    \/ SolveCall
    \/ FormatCall
    \/ Return

Spec == Init /\ [][Next]_vars

\* The probing specification: a compiler configured by SetUnitOut and
\* SetImperialFractions right after its construction, then one Eval call,
\* Format of its result, and Eval of the formatted text.
InitProbe ==
    /\ \E type \in UnitTypes, enable \in BOOLEAN :
        MembersAre(SetUnitOut(This("Metric", << >>, << >>, enable, ".", 0), type))
    /\ charSigned \in BOOLEAN
    /\ prevSolution = Solution(Zero, GenericUnit)
    /\ heldTokens = << >>
    /\ call = NoCall

NextProbe ==
    \/ /\ Idle
       /\ \E c \in ProbeCalls(desiredUnitType) : EvalCall(c[1], c[2], c[3])
    \/ FormatCall
    \/ ReEvalCall

SpecProbe == InitProbe /\ [][NextProbe]_vars

\* The lexing specification: a compiler configured as in the probing
\* specification, then one Parse call, in a locale whose decimal point is "."
\* or ",".

\* the most digits after a 0x or 0b prefix in the exhaustive family
MaxDigits == 3

PrefixedDigitAlphabet == {"0", "1", "2", "a", "F"}

\* a leading 0, a prefix letter, up to MaxDigits digits, and what follows,
\* at the start of the text and after "2+"
PrefixedTexts ==
    { lead \o "0" \o px \o ds \o tail :
        lead \in {"", "2+"}, px \in {"x", "X", "b", "B"},
        ds \in UNION { StringsOfLen(PrefixedDigitAlphabet, n) : n \in 0..MaxDigits },
        tail \in {"", "+1", "m", "g"} }

\* prefixed literals above LLONG_MAX
HugePrefixedTexts == { "0x8000000000000000", "0xFFFFFFFFFFFFFFFFF" }

\* words over the unit alphabet: the unit names of both systems, and words
\* that name no unit
UnitWordTexts ==
    { "mm", "cm", "m", "km", "Km", "Mm", "in", "inch", "ft", "foot", "'", "yd",
      "mi", "th", "thou", "mil", "mmm", "k", "5 mm", "2ft" }

\* numeric literals with decimal points
DecimalTexts ==
    { "1.5", "1,5", "1.5.2", "1,5,2", "1.,5", "1,.5", "2.", "2,", "0.5", "0,5",
      "1,500", "12,5+1", "1.5mm", "2+1,5", ".5", ",5", "1 .5" }

\* a digit followed by a unit name, for every name of the two unit tables
TypedUnitTexts ==
    { "2" \o nm : nm \in DOMAIN MapUnitsFor("Imperial") \cup DOMAIN MapUnitsFor("Metric") }

LexTexts ==
    PrefixedTexts \cup HugePrefixedTexts \cup UnitWordTexts \cup DecimalTexts
        \cup TypedUnitTexts

NextLex ==
    /\ Idle
    /\ \E t \in LexTexts, pt \in {".", ","} : ParseCall(t, pt)

SpecLex == InitProbe /\ [][NextLex]_vars

-----------------------------------------------------------------------------
(***************************************************************************)
(* Properties of Eval, Format and the tokenizer, checked under SpecProbe.  *)
(***************************************************************************)

\* the number of characters c in text
Count(text, c) == Cardinality({ i \in 1..Len(text) : SubSeq(text, i, i) = c })

\* text has a ")" with no matching "(" before it
HasUnmatchedClose(text) ==
    \E i \in 1..Len(text) :
        /\ SubSeq(text, i, i) = ")"
        /\ Count(SubSeq(text, 1, i), ")") > Count(SubSeq(text, 1, i), "(")

\* text has more "(" than ")"
MoreOpens(text) == Count(text, "(") > Count(text, ")")

EvalDone == call.op = "Eval"

\* C1 as the spec states it: eval of a text with a ")" that has no matching
\* "(" before it fails in the Solve stage with "Unexpected close parenthesis".
C1_UnmatchedCloseFailsInSolve ==
    (EvalDone /\ HasUnmatchedClose(call.input))
        => (call.kind = "Solver" /\ call.msg = "Unexpected close parenthesis")

\* C1 as the code has it: eval of a text with a ")" that has no matching "("
\* before it never returns a Solution and never reaches Solve: the call ends
\* in Parse, and for "1+2)" with the Parse-stage error "Parenthesis '(' & ')'
\* not balanced" raised at the parenthesis (position 3).
C1_UnmatchedCloseFailsInParse ==
    (EvalDone /\ HasUnmatchedClose(call.input))
        => /\ call.kind \in {"Parser", "out_of_range"}
           /\ call.msg # "Unexpected close parenthesis"
           /\ call.solution = NoSolution
           /\ call.input = "1+2)"
                => (call.kind = "Parser" /\ call.msg = NotBalanced /\ inputPos = 3)

C1_Witness ==
    EvalDone /\ call.input = "1+2)" /\ call.kind = "Parser" /\ call.msg = NotBalanced

\* C2: when the scan of a text with more "(" than ")" reaches the end of the
\* input, eval fails with the Parse-stage error "Parenthesis '(' & ')' not
\* balanced" raised by the tokenizer's end-of-input check on its non-zero
\* counter, and no Solution is returned.
C2_UnclosedOpenFailsInParse ==
    (EvalDone /\ MoreOpens(call.input) /\ call.atEnd)
        => /\ call.kind = "Parser"
           /\ call.msg = NotBalanced
           /\ call.solution = NoSolution
           /\ call.balance = Count(call.input, "(") - Count(call.input, ")")
           /\ inputPos = Len(call.input)

C2_Witness ==
    EvalDone /\ call.input = "(1+2" /\ call.atEnd /\ call.balance = 1 /\ call.kind = "Parser"

\* C3 as the spec states it: every eval call either returns a Solution or
\* fails with the compiler error type, tagged Parser or Solver.
C3_OnlyCompilerErrors ==
    call.op \in {"Eval", "ReEval"} => call.kind \in {"Solution", "Parser", "Solver"}

\* the Unit System of the compiler
UnitSystem == << desiredUnitType, mapUnits, mapUnitLookup >>

\* C4 as the spec states it: an Eval call leaves the caller's previous
\* Solution and the Unit System unchanged, and no operation other than
\* SetUnitOut changes the Unit System.
C4_EvalFrameAndOnlySetUnitOut ==
    [][ /\ call'.op = "Eval" => UNCHANGED << UnitSystem, prevSolution >>
        /\ UnitSystem' # UnitSystem => call'.op = "SetUnitOut" ]_vars

\* the tokens of the text are one numeric literal followed by one unit name
LiteralThenUnit(tokens) ==
    /\ Len(tokens) = 2
    /\ tokens[1].type = "Literal_Numeric"
    /\ tokens[2].type = "Unit"

\* a - b can be formed in the integers of this model
FitsSub(a, b) ==
    /\ IsFin(a) /\ IsFin(b)
    /\ a.e - MinInt(a.e, b.e) <= 9
    /\ b.e - MinInt(a.e, b.e) <= 9
    /\ AbsInt(a.n) <= (1073741823 \div Pow10(a.e - MinInt(a.e, b.e))) \div b.d
    /\ AbsInt(b.n) <= (1073741823 \div Pow10(b.e - MinInt(a.e, b.e))) \div a.d

\* C5 as the spec states it: for a numeric literal followed by a unit name,
\* the text Format returns for the result of Eval is accepted by Eval (no
\* previous Solution, same output system) and evaluates to the same value
\* within epsilon.
C5_RoundTrip ==
    (call.op = "ReEval" /\ LiteralThenUnit(call.firstTokens))
        => /\ call.kind = "Solution"
           /\ FitsSub(call.solution.value, call.first.value)
                => Leq(Fabs(Sub(call.solution.value, call.first.value)), Epsilon)

\* the value Eval leaves on the solve stack for the text of the call when it
\* is given no previous Solution
BareValue == Eval(this, call.input, << >>, call.point, charSigned).bare.value

\* the previous Solution has a unit type, the one of the active output system
InheritsFrom(pv) ==
    /\ pv # << >>
    /\ pv[1].units.type # "Generic"
    /\ pv[1].units.type = desiredUnitType

\* C6: Eval of a text with no Unit token, given a previous Solution whose
\* unit type is not Generic and is the active output system, returns a
\* Solution of the previous Solution's unit type whose value is the bare
\* value of the text times previous.units.scale; previous.value is not used.
\* "+5" after {0.12, scale 1, Metric} is 5 m, after scale 0.001 it is 5 mm.
C6_UnitInheritance ==
    (EvalDone /\ call.kind = "Solution" /\ ~HasUnitToken(call.tokens)
              /\ InheritsFrom(call.prev))
        => /\ call.solution.units.type = call.prev[1].units.type
           /\ call.solution.value = Mul(BareValue, call.prev[1].units.scale)
           /\ (call.input = "+5" /\ call.prev[1].units = Unit(One, "Metric"))
                => call.solution = Solution(FromInt(5), Unit(One, "Metric"))
           /\ (call.input = "+5" /\ call.prev[1].units = Unit(Dec(1, -3), "Metric"))
                => call.solution = Solution(Dec(5, -3), Unit(Dec(1, -3), "Metric"))

C6_Witness ==
    /\ EvalDone /\ call.input = "+5"
    /\ call.prev = << Solution(Dec(12, -2), Unit(Dec(1, -3), "Metric")) >>
    /\ desiredUnitType = "Metric"
    /\ call.solution.value = Dec(5, -3)

\* sums of two unit-bearing operands: the text, and count and scale in metres
\* of each operand
SumCases ==
    { << "5m + 3ft", 5, Dec(1, 0), 3, _metricScaleFoot >>,
      << "3ft + 5m", 3, _metricScaleFoot, 5, Dec(1, 0) >>,
      << "5mm + 3mm", 5, Dec(1, -3), 3, Dec(1, -3) >>,
      << "2in + 1cm", 2, _metricScaleInch, 1, Dec(1, -2) >> }

\* C7: with output system Metric, the sum of two unit-bearing operands is
\* the sum of their magnitudes in metres, of unit type Metric, whatever the
\* unit systems of the operands: "5m + 3ft" has the value 5.9144.
C7_MetricSum ==
    (EvalDone /\ desiredUnitType = "Metric")
        => /\ \A c \in SumCases :
                call.input = c[1]
                    => /\ call.kind = "Solution"
                       /\ call.solution.units.type = "Metric"
                       /\ call.solution.value
                            = Add(Mul(FromInt(c[2]), c[3]), Mul(FromInt(c[4]), c[5]))
           /\ call.input = "5m + 3ft" => call.solution.value = Dec(59144, -4)

C7_Witness ==
    /\ EvalDone /\ desiredUnitType = "Metric" /\ call.input = "5m + 3ft"
    /\ call.solution = Solution(Dec(59144, -4), Unit(One, "Metric"))

FormatDone == call.op = "Format"

SixDecimalsThen(text, name) ==
    /\ Len(text) >= Len(name) + 8
    /\ SubSeq(text, Len(text) - Len(name) + 1, Len(text)) = name
    /\ SubSeq(text, Len(text) - Len(name) - 6, Len(text) - Len(name) - 6) = "."
    /\ \A i \in 1..(Len(text) - Len(name)) :
            i # Len(text) - Len(name) - 6
                => SubSeq(text, i, i) \in gFirstNumericDigits \cup {"-"}

\* the value Format renders: the Solution's value in its own units
NormalValue == Div(call.solution.value, call.solution.units.scale)

ImperialFractionsOn == desiredUnitType = "Imperial" /\ imperialFractions

\* C9 as the spec states it: with Imperial output and fractions enabled
\* "1/8in" is rendered as the fraction "1/8in", and "0.333in" matches no
\* denominator and is rendered as a decimal (a text without "/").
C9_ThirdIsDecimal ==
    (FormatDone /\ ImperialFractionsOn)
        => /\ call.input = "1/8in" => call.text = "1/8in"
           /\ call.input = "0.333in" => Count(call.text, "/") = 0

\* C9 as the code has it: with Imperial output and fractions enabled "1/8in"
\* and "0.125in" are rendered "1/8in"; 0.333 times the last denominator of
\* the table, 1000, is an integer, so "0.333in" is rendered as a fraction of
\* 1000, "333/1000in" where the product does not fall below 333;
\* "0.3333in" matches no denominator and is rendered "0.333300in".
C9_ImperialFractions ==
    (FormatDone /\ ImperialFractionsOn)
        => /\ call.input = "1/8in" => call.text = "1/8in"
           /\ call.input = "0.125in" => call.text = "1/8in"
           /\ call.input = "0.333in" => call.text \in {"333/1000in", "332/1000in"}
           /\ call.input = "0.3333in" => call.text = "0.333300in"

C9_Witness ==
    /\ FormatDone /\ ImperialFractionsOn
    /\ call.input = "0.333in" /\ call.text = "333/1000in"

\* C10 as the spec states it: tokenizing "0z9" is no error and gives the
\* literal "0" followed by a token for "z9".
C10_ZeroZNineIsTokenized ==
    (EvalDone /\ call.input = "0z9")
        => /\ call.kind \notin {"Parser", "out_of_range"}
           /\ Len(call.tokens) = 2
           /\ call.tokens[1].text = "0"
           /\ call.tokens[2].text = "z9"

\* C10 as the code has it: after a leading 0 a character that is no prefix
\* letter ends the literal "0", which is completed as a decimal literal, and
\* starts a new token. "0m" and "0 m" give the literal 0 and the Unit m. In
\* "0z9" the new token starts at "z", which is not in the unit alphabet: the
\* scan ends there with the Parse-stage error "Unknown character 'z'".
C10_PrefixFallback ==
    EvalDone
        => /\ call.input = "0z9"
                => /\ call.kind = "Parser"
                   /\ call.msg = "Unknown character 'z'"
                   /\ inputPos = 1
                   /\ call.scanned = << Token(0, "Literal_Numeric", "0", Zero) >>
           /\ call.input = "0m"
                => call.tokens = << Token(0, "Literal_Numeric", "0", Zero),
                                    Token(1, "Unit", "m", mapUnits["m"].scale) >>
           /\ call.input = "0 m"
                => call.tokens = << Token(0, "Literal_Numeric", "0", Zero),
                                    Token(2, "Unit", "m", mapUnits["m"].scale) >>

C10_Witness ==
    /\ EvalDone /\ call.input = "0z9" /\ call.kind = "Parser"
    /\ call.scanned = << Token(0, "Literal_Numeric", "0", Zero) >>

-----------------------------------------------------------------------------
(***************************************************************************)
(* Properties of the tokenizer, checked under SpecLex.                     *)
(***************************************************************************)

ParseDone == call.op = "Parse"

\* the number of characters before the leading 0 of a text of PrefixedTexts
LeadLen(text) == IF Len(text) >= 2 /\ SubSeq(text, 1, 2) = "2+" THEN 2 ELSE 0

\* after its lead the text has a 0 followed by a prefix letter
IsPrefixed(text) ==
    /\ Len(text) >= LeadLen(text) + 2
    /\ SubSeq(text, LeadLen(text) + 1, LeadLen(text) + 1) = "0"
    /\ SubSeq(text, LeadLen(text) + 2, LeadLen(text) + 2) \in {"x", "X", "b", "B"}

PrefixLetter(text) == SubSeq(text, LeadLen(text) + 2, LeadLen(text) + 2)
PrefixBase(text) == IF PrefixLetter(text) \in {"x", "X"} THEN 16 ELSE 2

\* the longest prefix of str made of digits of the base
RECURSIVE DigitRun(_, _)
DigitRun(str, base) ==
    IF str # "" /\ Head(str) \in (IF base = 16 THEN gAllowedHexDigits
                                               ELSE gAllowedBinaryDigits)
    THEN Head(str) \o DigitRun(Tail(str), base)
    ELSE ""

\* the digits that follow the prefix of the text
PrefixedDigits(text) ==
    DigitRun(SubSeq(text, LeadLen(text) + 3, Len(text)), PrefixBase(text))

\* the digits denote an integer of at most 63 bits
FitsLongLong(digits, base) ==
    IF base = 16
    THEN Len(StripLeadingZeros(digits)) < 16
    ELSE Len(StripLeadingZeros(digits)) < 64

\* the token scanned for the prefixed literal of the text is the one token
\* that starts at the 0, covers the prefix and the digits, and has the value
\* the digits denote in the base
PrefixedToken(text, scanned, digits, base) ==
    /\ Len(scanned) >= LeadLen(text) + 1
    /\ scanned[LeadLen(text) + 1].type = "Literal_Numeric"
    /\ scanned[LeadLen(text) + 1].pos = LeadLen(text)
    /\ scanned[LeadLen(text) + 1].text = "0" \o PrefixLetter(text) \o digits
    /\ FitsLongLong(digits, base)
    /\ scanned[LeadLen(text) + 1].value = FromInt(DigitsValue(digits, base))

\* C11 as the spec states it: a leading 0, a prefix letter and k >= 1 digits
\* of the base are scanned as one numeric literal token that starts at the 0,
\* covers the prefix and all the consecutive digits and has their value in the
\* base; with k = 0 digits Parse fails with a Parse-stage error.
C11_PrefixedLiteral ==
    (ParseDone /\ IsPrefixed(call.input))
        => IF PrefixedDigits(call.input) = ""
           THEN call.kind = "Parser"
           ELSE PrefixedToken(call.input, call.scanned, PrefixedDigits(call.input),
                              PrefixBase(call.input))

\* C11 for the literals std::stoll can convert: the statement of C11 holds of
\* every prefixed literal whose digits denote an integer of at most 63 bits
\* ("0x1F" is 31, "0b101" is 5; the value is that integer as a double); a
\* literal above that leaves Parse with std::out_of_range and no token.
C11_PrefixedLiteralInRange ==
    (ParseDone /\ IsPrefixed(call.input))
        => IF PrefixedDigits(call.input) = ""
           THEN call.kind = "Parser" /\ call.msg = "Invalid prefixed numeric literal"
           ELSE IF FitsLongLong(PrefixedDigits(call.input), PrefixBase(call.input))
           THEN PrefixedToken(call.input, call.scanned, PrefixedDigits(call.input),
                              PrefixBase(call.input))
           ELSE call.kind = "out_of_range" /\ call.scanned = << >>

\* Parse of a hexadecimal literal of 2^63 has ended with std::out_of_range
C11_Witness ==
    /\ ParseDone /\ call.input = "0x8000000000000000"
    /\ call.kind = "out_of_range" /\ call.scanned = << >>

-----------------------------------------------------------------------------
(***************************************************************************)
(* Properties of unit resolution, the unit maps and the evaluator.         *)
(***************************************************************************)

\* the caller passed no previous Solution, or one of type Generic
NoPreviousUnits(pv) == pv = << >> \/ pv[1].units.type = "Generic"

\* C12 as the spec states it: Eval of a text with no Unit token, given no
\* previous Solution or a Generic one, returns the value of the text counted
\* in the unit DefaultUnit() returns for the active output system, and of
\* that system's type: scale 1 for Generic and Metric, the foot for Imperial.
C12_AdoptsDefaultUnit ==
    (EvalDone /\ call.kind = "Solution" /\ ~HasUnitToken(call.tokens)
              /\ NoPreviousUnits(call.prev))
        => /\ call.solution.units.type = desiredUnitType
           /\ call.solution.value = Mul(call.bare.value, DefaultUnit(this).scale)

\* with Imperial output Eval( "5", nullptr ) has returned 5 thou: the unit
\* { 1.0, Imperial }, not the foot of DefaultUnit()
C12_Witness ==
    /\ EvalDone /\ desiredUnitType = "Imperial"
    /\ call.input = "5" /\ call.prev = << >>
    /\ DefaultUnit(this) = Unit(_impScaleFoot, "Imperial")
    /\ call.solution = Solution(FromInt(5), Unit(_impScaleThou, "Imperial"))

\* C13 as the spec states it: after SetUnitOut( Generic ) the forward unit
\* map is empty, and Parse of a word over the unit alphabet gives no Unit
\* token.
C13_GenericDefinesNoUnits ==
    desiredUnitType = "Generic"
        => /\ DOMAIN mapUnits = {}
           /\ ParseDone => ~HasUnitToken(call.scanned)

\* after SetUnitOut( Generic ) Parse( "mm" ) has returned one Unit token, of
\* the scale the Metric table gives the name
C13_Witness ==
    /\ ParseDone /\ desiredUnitType = "Generic" /\ call.input = "mm"
    /\ mapUnits = MapUnitsFor("Metric")
    /\ call.tokens = << Token(0, "Unit", "mm", Dec(1, -3)) >>

\* every reverse entry names a unit of that very scale, and the scale of
\* every forward entry has a reverse entry
MapsConsistent(forward, reverse) ==
    /\ \A sc \in DOMAIN reverse :
          /\ reverse[sc] \in DOMAIN forward
          /\ forward[reverse[sc]].scale = sc
    /\ \A nm \in DOMAIN forward : forward[nm].scale \in DOMAIN reverse

\* C14 as the spec states it: right after SetUnitOut( k ), whatever calls
\* came before, the forward and the reverse unit map are consistent with
\* each other.
C14_UnitMapsConsistent ==
    call.op = "SetUnitOut" => MapsConsistent(mapUnits, mapUnitLookup)

\* right after SetUnitOut( Imperial ) the reverse map names "mm" at the scale
\* 0.001 / 0.3048, the forward map gives "mm" the scale 1 / 0.0254, and that
\* scale has no reverse entry
C14_Witness ==
    /\ call.op = "SetUnitOut" /\ desiredUnitType = "Imperial"
    /\ mapUnitLookup[Div(Dec(1, -3), _metricScaleFoot)] = "mm"
    /\ mapUnits["mm"].scale = Div(One, _metricScaleInch)
    /\ mapUnits["mm"].scale \notin DOMAIN mapUnitLookup

\* the steps the tokenizer can take from a state before it next consumes a
\* character, stops or throws
TokRank(ts) ==
    IF ts.stateNow \in {"Parenthesis_Open", "Parenthesis_Close"} THEN 0
    ELSE IF ts.stateNow = "Operator" /\ ts.sCurrentToken = "" THEN 0
    ELSE IF ts.stateNow = "NewToken" THEN 1
    ELSE IF ts.stateNow = "CompleteToken" THEN 2
    ELSE IF ts.stateNow = "PrefixedNumericLiteral" THEN 4
    ELSE 3

\* a bound of the steps left to the tokenizer: the characters not yet
\* consumed weigh more than any number of steps between two of them
TokMeasure(ts, sInput) == 5 * (Len(sInput) - ts.pos) + TokRank(ts)

\* every step of the scan from ts on ends the scan or lowers the measure
RECURSIVE TokStepsDecrease(_, _, _, _)
TokDecreasesTo(ts, nx, sInput, t, signed) ==
    /\ nx.exit # "run" \/ TokMeasure(nx, sInput) < TokMeasure(ts, sInput)
    /\ nx.pos \in {ts.pos, ts.pos + 1}
    /\ TokStepsDecrease(nx, sInput, t, signed)

TokStepsDecrease(ts, sInput, t, signed) ==
    \/ ts.exit # "run"
    \/ TokDecreasesTo(ts, TokStep(ts, sInput, t, signed), sInput, t, signed)

\* in every state of the shunting yard from y on the holding stack holds
\* operators and open parentheses only, so that each turn of the operator
\* loop pops its front or breaks
RECURSIVE YardPopsOrBreaks(_, _, _)
YardPopsOrBreaks(y, vTokens, i) ==
    /\ y.exit # "hang"
    /\ \A k \in 1..Len(y.stkHolding) :
            y.stkHolding[k].type \in {"Operator", "Parenthesis_Open"}
    /\ \/ y.exit # "run"
       \/ i > Len(vTokens)
       \/ YardPopsOrBreaks(YardStep(y, vTokens[i]), vTokens, i + 1)

\* the result of the call as the normalizer receives it
Converted ==
    ConvertUnits(ResolveUnits(call.bare, HasUnitToken(call.tokens), call.prev,
                              desiredUnitType),
                 desiredUnitType)

\* the scale one pass of the active system's normalizer loop sets
NormaliseRule(result) ==
    IF desiredUnitType = "Imperial"
    THEN NormaliseImperialRule(result, Fabs(Div(result.value, result.units.scale)))
    ELSE IF desiredUnitType = "Metric"
    THEN NormaliseMetricRule(result, Fabs(Div(result.value, result.units.scale)))
    ELSE result.units.scale

\* a loop that sets one of the five scales of a table in each pass, and
\* depends on nothing else that changes, ends if and only if it breaks after
\* at most this many passes
ScaleChanges ==
    Cardinality({_impScaleThou, _impScaleInch, _impScaleFoot, _impScaleYard,
                 _impScaleMile}) - 1

\* the normalizer loop started on result breaks after at most n more passes
RECURSIVE SettlesWithin(_, _)
SettlesTo(result, sc, n) ==
    \/ sc = result.units.scale
    \/ n > 0 /\ SettlesWithin([result EXCEPT !.units.scale = sc], n - 1)

SettlesWithin(result, n) ==
    result.value = Zero \/ SettlesTo(result, NormaliseRule(result), n)

\* C15: every Eval call ends, with a Solution or an error: each step of the
\* tokenizer ends the scan or lowers a measure bounded by the characters
\* left, consuming at most one character; the operator loop of the shunting
\* yard always pops or breaks; and the normalizer loop of the active output
\* system breaks, without going through a scale twice.
C15_EvalTerminates ==
    EvalDone
        => /\ call.kind \in {"Solution", "Parser", "Solver", "out_of_range"}
           /\ call.input = "" \/ TokStepsDecrease(TokInit, call.input, this, charSigned)
           /\ YardPopsOrBreaks(YardInit, call.tokens, 1)
           /\ call.kind = "Solution" => SettlesWithin(Converted, ScaleChanges)

\* Eval( "2000000mm" ) has returned 2 Km: the normalizer went from mm to m
\* and from m to Km and stopped there
C15_Witness ==
    /\ EvalDone /\ desiredUnitType = "Metric" /\ call.input = "2000000mm"
    /\ Converted.units.scale = Dec(1, -3)
    /\ ~SettlesWithin(Converted, 1)
    /\ call.solution.units.scale = Dec(1, 3)

\* the character of the input of the call at index k, from 1
InputAt(k) == IF k \in 1..Len(call.input) THEN SubSeq(call.input, k, k) ELSE ""

IsDigit(c) == c # "" /\ LutAt(gFirstNumericDigits, c)

\* the characters that NumericLiteral takes for a decimal point
IsPoint(c) == c # "" /\ (c \in {".", ","} \/ c = call.point)

\* a numeric literal token in decimal notation
IsDecimalLiteral(tok) ==
    /\ tok.type = "Literal_Numeric"
    /\ \A j \in 1..Len(tok.text) :
            IsDigit(SubSeq(tok.text, j, j)) \/ SubSeq(tok.text, j, j) \in {".", ","}

\* the indices in the text of the token where the input has no digit
PointsOf(tok) == { j \in 1..Len(tok.text) : ~IsDigit(InputAt(tok.pos + j)) }

\* the input starts with a digit and has a second decimal point character
\* before any other character
RECURSIVE LeadingPoints(_, _)
LeadingPoints(k, n) ==
    IF IsDigit(InputAt(k)) THEN LeadingPoints(k + 1, n)
    ELSE IF IsPoint(InputAt(k)) THEN LeadingPoints(k + 1, n + 1)
    ELSE n

SecondPoint == IsDigit(InputAt(1)) /\ LeadingPoints(1, 0) >= 2

\* C16 as the spec states it: a numeric literal takes only the locale's
\* decimal separator for a decimal point, its token holds the point as ".",
\* and a second decimal point in a literal is a Parse-stage error.
C16_LocalePointCanonical ==
    ParseDone
        => /\ \A i \in 1..Len(call.scanned) :
                IsDecimalLiteral(call.scanned[i])
                    => \A j \in PointsOf(call.scanned[i]) :
                            /\ InputAt(call.scanned[i].pos + j) = call.point
                            /\ SubSeq(call.scanned[i].text, j, j) = "."
           /\ SecondPoint => call.kind = "Parser"

\* C16: a numeric literal takes ".", "," and the locale's decimal separator
\* for a decimal point, whatever the locale: after the first digit each of
\* them is consumed into the literal, at most once, and the token holds it as
\* the locale's decimal separator; a second one before the literal ends is
\* the Parse-stage error "Bad numeric construction".
C16_DecimalPoint ==
    ParseDone
        => /\ \A i \in 1..Len(call.scanned) :
                IsDecimalLiteral(call.scanned[i])
                    => /\ Cardinality(PointsOf(call.scanned[i])) <= 1
                       /\ \A j \in PointsOf(call.scanned[i]) :
                            /\ IsPoint(InputAt(call.scanned[i].pos + j))
                            /\ SubSeq(call.scanned[i].text, j, j) = call.point
                       /\ ~IsDigit(InputAt(call.scanned[i].pos
                                            + Len(call.scanned[i].text) + 1))
                       /\ ~IsPoint(InputAt(call.scanned[i].pos
                                            + Len(call.scanned[i].text) + 1))
           /\ SecondPoint
                => call.kind = "Parser" /\ call.msg = "Bad numeric construction"

\* Parse( "1,5" ) in a locale whose decimal point is "." has returned the one
\* token 1.5
C16_Witness ==
    /\ ParseDone /\ call.input = "1,5" /\ call.point = "."
    /\ call.scanned = << Token(0, "Literal_Numeric", "1.5", Dec(15, -1)) >>

\* the text is made of the characters + and -
IsSigns(str) == \A j \in 1..Len(str) : SubSeq(str, j, j) \in {"+", "-"}

\* the factor that the unary operators of str apply to their operand
RECURSIVE SignOf(_)
SignOf(str) ==
    IF str = "" THEN 1
    ELSE (IF Head(str) = "-" THEN -1 ELSE 1) * SignOf(Tail(str))

\* two or more unary operators followed by the operand 2
IsUnaryChain(str) ==
    /\ Len(str) >= 3
    /\ SubSeq(str, Len(str), Len(str)) = "2"
    /\ IsSigns(SubSeq(str, 1, Len(str) - 1))

\* C17 as the spec states it: each of two or more consecutive unary
\* operators is applied to the operand that follows them, so that "--2" is 2
\* and "3 - - - 2" is 1, without an error.
C17_ChainedUnary ==
    EvalDone
        => /\ IsUnaryChain(call.input)
                => /\ call.kind = "Solution"
                   /\ call.bare.value
                        = FromInt(2 * SignOf(SubSeq(call.input, 1, Len(call.input) - 1)))
           /\ call.input = "3 - - - 2"
                => call.kind = "Solution" /\ call.bare.value = FromInt(1)

\* Eval( "3 - - - 2" ) has returned -1: the second unary minus of the chain
\* was applied to the 3 on its left
C17_Witness ==
    /\ EvalDone /\ call.input = "3 - - - 2" /\ call.prev = << >>
    /\ call.kind = "Solution"
    /\ call.bare.value = FromInt(-1)

\* C18 as the spec states it: the text Format returns for a Solution with a
\* negative value starts with "-", in every output system and on every path
\* (integer, fraction, feet and inches, decimal).
C18_FormatKeepsSign ==
    (FormatDone /\ Lt(call.solution.value, Zero))
        => call.text # "" /\ Head(call.text) = "-"

\* with output system Imperial and fractions on, Format has rendered the
\* Solution of Eval( "-0.125in" ), -125 thou at the inch scale, as "1/8in"
C18_Witness ==
    /\ FormatDone /\ desiredUnitType = "Imperial" /\ imperialFractions
    /\ call.input = "-0.125in"
    /\ call.solution = Solution(FromInt(-125), Unit(_impScaleInch, "Imperial"))
    /\ call.text = "1/8in"

\* the text with its unit-free sub-expression replaced by the literal of the
\* value of that sub-expression
Substituted(text) ==
    IF text = "2*3 + 5mm" THEN "6 + 5mm"
    ELSE IF text = "8/4 + 5mm" THEN "2 + 5mm"
    ELSE text

\* C19 as the spec states it: with output system Metric or Imperial, Eval of
\* "2*3 + 5mm" and of "8/4 + 5mm" returns what Eval of "6 + 5mm" and of
\* "2 + 5mm" returns.
C19_SubstitutionConsistency ==
    (EvalDone /\ desiredUnitType \in {"Metric", "Imperial"} /\ call.prev = << >>
        /\ Substituted(call.input) # call.input)
        => /\ call.kind = "Solution"
           /\ call.solution
                = Eval(this, Substituted(call.input), << >>, call.point,
                       charSigned).solution

\* with output system Metric, Eval( "2*3 + 5mm" ) has returned 6.005 m, and
\* Eval( "6 + 5mm" ) returns 11 mm
C19_Witness ==
    /\ EvalDone /\ desiredUnitType = "Metric" /\ call.prev = << >>
    /\ call.input = "2*3 + 5mm"
    /\ call.solution = Solution(Dec(6005, -3), Unit(FromInt(1), "Metric"))
    /\ Eval(this, "6 + 5mm", << >>, call.point, charSigned).solution
            = Solution(Dec(11, -3), Unit(Dec(1, -3), "Metric"))

\* the fraction of the value Format renders
NormalFrac == Sub(Fabs(NormalValue), FromInt(FloorInt(Fabs(NormalValue))))

\* the Solution Format was given is an Imperial one in feet, rendered with
\* fractions, whose whole part is not zero and whose fraction matches the
\* denominator 12 first
FeetAndInches ==
    /\ FormatDone /\ imperialFractions
    /\ call.solution.units = Unit(_impScaleFoot, "Imperial")
    /\ IsFin(NormalValue) /\ ~IsEpsilonInteger(NormalValue)
    /\ FloorInt(Fabs(NormalValue)) # 0
    /\ FirstDenominator(NormalFrac, 1) # 0
    /\ gDenominatorTable[FirstDenominator(NormalFrac, 1)] = 12

\* C20 as the spec states it: in the feet and inches case Format returns
\* exactly the whole feet, "ft", the inch count N of the fraction N/12 and
\* "in", with nothing between "ft" and the inch count.
C20_FeetInchesText ==
    FeetAndInches
        => call.text = IntToString(TruncInt(NormalValue)) \o "ft"
                        \o IntToString(RoundInt(Mul(NormalFrac, FromInt(12)))) \o "in"

\* Format has rendered 77 in, a Solution of 6 + 5/12 ft, as "6ft+5in"
C20_Witness ==
    /\ FeetAndInches /\ call.input = "77in"
    /\ call.solution = Solution(FromInt(77000), Unit(_impScaleFoot, "Imperial"))
    /\ call.text = "6ft+5in"

-----------------------------------------------------------------------------
(***************************************************************************)
(* Properties of the operators of the evaluator.                           *)
(***************************************************************************)

\* the types of the tokens, in order
TypesOf(tokens) == [i \in 1..Len(tokens) |-> tokens[i].type]

\* the tokens of the call are of these types, with this operator among them
ShapeIs(types, at, op) ==
    /\ EvalDone
    /\ TypesOf(call.tokens) = types
    /\ call.tokens[at].text = op

\* C21: binary "-" on two operands that both carry a unit leaves the sum of
\* their stored values, a.value + b.value, with the Generic unit of scale 1
\* (Eval( "5m - 3m" ) is 8 m with output system Metric); with one operand
\* Generic it leaves the difference, left minus right, in the unit of the
\* other operand.
C21_TypedMinusAdds ==
    /\ ShapeIs(<< "Literal_Numeric", "Unit", "Operator", "Literal_Numeric", "Unit" >>, 3, "-")
        => /\ call.kind = "Solution"
           /\ call.bare
                = Solution(Add(Mul(call.tokens[1].value, call.tokens[2].value),
                               Mul(call.tokens[4].value, call.tokens[5].value)),
                           GenericUnit)
    /\ ShapeIs(<< "Literal_Numeric", "Unit", "Operator", "Literal_Numeric" >>, 3, "-")
        => /\ call.kind = "Solution"
           /\ call.bare
                = Solution(Mul(Sub(call.tokens[1].value, call.tokens[4].value),
                               call.tokens[2].value),
                           mapUnits[call.tokens[2].text])
    /\ ShapeIs(<< "Literal_Numeric", "Operator", "Literal_Numeric", "Unit" >>, 2, "-")
        => /\ call.kind = "Solution"
           /\ call.bare
                = Solution(Mul(Sub(call.tokens[1].value, call.tokens[3].value),
                               call.tokens[4].value),
                           mapUnits[call.tokens[4].text])
    /\ (EvalDone /\ desiredUnitType = "Metric" /\ call.prev = << >>
            /\ call.input = "5m - 3m")
        => call.solution = Solution(FromInt(8), Unit(One, "Metric"))

\* with output system Metric, Eval( "5m - 3m" ) has returned 8 m
C21_Witness ==
    /\ EvalDone /\ desiredUnitType = "Metric" /\ call.prev = << >>
    /\ call.input = "5m - 3m"
    /\ call.bare = Solution(FromInt(8), GenericUnit)
    /\ call.solution = Solution(FromInt(8), Unit(One, "Metric"))

\* C22: a / b leaves the quotient of the operands taken in their own units;
\* with a divisor that carries a unit it is multiplied by the scale of that
\* unit and has that unit; with a Generic divisor it has scale 1 of the
\* active output system, whatever the unit of the dividend (Eval( "6mm / 2" )
\* is 3 at scale 1 with output system Metric).
C22_Division ==
    /\ ShapeIs(<< "Literal_Numeric", "Unit", "Operator", "Literal_Numeric", "Unit" >>, 3, "/")
        => /\ call.kind = "Solution"
           /\ call.bare
                = Solution(Mul(Div(call.tokens[1].value, call.tokens[4].value),
                               call.tokens[5].value),
                           mapUnits[call.tokens[5].text])
    /\ ShapeIs(<< "Literal_Numeric", "Operator", "Literal_Numeric", "Unit" >>, 2, "/")
        => /\ call.kind = "Solution"
           /\ call.bare
                = Solution(Mul(Div(call.tokens[1].value, call.tokens[3].value),
                               call.tokens[4].value),
                           mapUnits[call.tokens[4].text])
    /\ ShapeIs(<< "Literal_Numeric", "Unit", "Operator", "Literal_Numeric" >>, 3, "/")
        => /\ call.kind = "Solution"
           /\ call.bare
                = Solution(Div(call.tokens[1].value, call.tokens[4].value),
                           Unit(One, desiredUnitType))
    /\ ShapeIs(<< "Literal_Numeric", "Operator", "Literal_Numeric" >>, 2, "/")
        => /\ call.kind = "Solution"
           /\ call.bare
                = Solution(Div(call.tokens[1].value, call.tokens[3].value),
                           Unit(One, desiredUnitType))

\* with output system Metric, Eval( "6mm / 2" ) has returned 3 m
C22_Witness ==
    /\ EvalDone /\ desiredUnitType = "Metric" /\ call.prev = << >>
    /\ call.input = "6mm / 2"
    /\ call.bare = Solution(FromInt(3), Unit(One, "Metric"))
    /\ call.solution = Solution(FromInt(3), Unit(One, "Metric"))

\* the tokens with the operands of the operator at index `at` exchanged
SwapOperands(tokens, at) ==
    SubSeq(tokens, at + 1, Len(tokens)) \o << tokens[at] >> \o SubSeq(tokens, 1, at - 1)

\* Solve of the tokens returns the Solution the call returned, from the same
\* value on the solve stack
SolvesAlike(r) ==
    /\ call.kind = "Solution"
    /\ r.kind = "Solution"
    /\ r.bare = call.bare
    /\ r.solution = call.solution

\* the call was a sum of two operands of these token types, and the sum of
\* the operands in the other order is the same Solution
SumCommutes(types, at) ==
    ShapeIs(types, at, "+")
        => SolvesAlike(Solve(this, SwapOperands(call.tokens, at), call.prev))

\* C23: a sum with one Generic operand g and one operand u with a unit has
\* the unit of u and the value (g + u.value / u.scale) * u.scale, and a + b
\* and b + a are the same Solution, whether both operands are Generic, one
\* is, or none is.
C23_AdditionCommutes ==
    /\ ShapeIs(<< "Literal_Numeric", "Operator", "Literal_Numeric", "Unit" >>, 2, "+")
        => call.bare = Solution(Mul(Add(call.tokens[1].value, call.tokens[3].value),
                                    call.tokens[4].value),
                                mapUnits[call.tokens[4].text])
    /\ ShapeIs(<< "Literal_Numeric", "Unit", "Operator", "Literal_Numeric" >>, 3, "+")
        => call.bare = Solution(Mul(Add(call.tokens[4].value, call.tokens[1].value),
                                    call.tokens[2].value),
                                mapUnits[call.tokens[2].text])
    /\ SumCommutes(<< "Literal_Numeric", "Operator", "Literal_Numeric" >>, 2)
    /\ SumCommutes(<< "Literal_Numeric", "Operator", "Literal_Numeric", "Unit" >>, 2)
    /\ SumCommutes(<< "Literal_Numeric", "Unit", "Operator", "Literal_Numeric" >>, 3)
    /\ SumCommutes(<< "Literal_Numeric", "Unit", "Operator", "Literal_Numeric", "Unit" >>, 3)

\* with output system Metric, Eval( "2 + 5mm" ) has returned 7 mm, and so
\* does Solve of the tokens of 5mm + 2
C23_Witness ==
    /\ EvalDone /\ desiredUnitType = "Metric" /\ call.prev = << >>
    /\ call.input = "2 + 5mm"
    /\ call.solution = Solution(Dec(7, -3), Unit(Dec(1, -3), "Metric"))
    /\ SwapOperands(call.tokens, 2)
            = << call.tokens[3], call.tokens[4], call.tokens[2], call.tokens[1] >>
    /\ Solve(this, SwapOperands(call.tokens, 2), << >>).solution = call.solution

-----------------------------------------------------------------------------
(***************************************************************************)
(* Standard arithmetic on the tokens of a unit-free expression: sums of    *)
(* products of literals and parenthesised expressions, the operators of    *)
(* one level taken from left to right. A result is the value and the index *)
(* of the next token.                                                      *)
(***************************************************************************)

StdFail == [ok |-> FALSE, v |-> Zero, i |-> 0]

IsOperatorAt(tk, i, ops) ==
    i <= Len(tk) /\ tk[i].type = "Operator" /\ tk[i].text \in ops

StdApply(op, a, b) ==
    IF op = "+" THEN Add(a, b)
    ELSE IF op = "-" THEN Sub(a, b)
    ELSE IF op = "*" THEN Mul(a, b)
    ELSE Div(a, b)

RECURSIVE StdExpr(_, _)
RECURSIVE StdExprRest(_, _)
RECURSIVE StdTerm(_, _)
RECURSIVE StdTermRest(_, _)
RECURSIVE StdFactor(_, _)

StdClose(tk, r) ==
    IF r.ok /\ r.i <= Len(tk) /\ tk[r.i].type = "Parenthesis_Close"
    THEN [r EXCEPT !.i = @ + 1]
    ELSE StdFail

StdFactor(tk, i) ==
    IF i > Len(tk) THEN StdFail
    ELSE IF tk[i].type = "Literal_Numeric" THEN [ok |-> TRUE, v |-> tk[i].value, i |-> i + 1]
    ELSE IF tk[i].type = "Parenthesis_Open" THEN StdClose(tk, StdExpr(tk, i + 1))
    ELSE StdFail

StdTermNext(tk, r, op, f) ==
    IF f.ok THEN StdTermRest(tk, [f EXCEPT !.v = StdApply(op, r.v, f.v)]) ELSE StdFail

StdTermRest(tk, r) ==
    IF r.ok /\ IsOperatorAt(tk, r.i, {"*", "/"})
    THEN StdTermNext(tk, r, tk[r.i].text, StdFactor(tk, r.i + 1))
    ELSE r

StdTerm(tk, i) == StdTermRest(tk, StdFactor(tk, i))

StdExprNext(tk, r, op, t) ==
    IF t.ok THEN StdExprRest(tk, [t EXCEPT !.v = StdApply(op, r.v, t.v)]) ELSE StdFail

StdExprRest(tk, r) ==
    IF r.ok /\ IsOperatorAt(tk, r.i, {"+", "-"})
    THEN StdExprNext(tk, r, tk[r.i].text, StdTerm(tk, r.i + 1))
    ELSE r

StdExpr(tk, i) == StdExprRest(tk, StdTerm(tk, i))

\* the tokens are a well-formed unit-free expression over literals, binary
\* operators and parentheses, with at least one operator
StdWhole(tk, r) == r.ok /\ r.i = Len(tk) + 1

WellFormedArithmetic(tk) ==
    /\ \E i \in 1..Len(tk) : tk[i].type = "Operator"
    /\ StdWhole(tk, StdExpr(tk, 1))

IsLiteral(token) == token.type = "Literal_Numeric"

\* C24 as the spec states it: Eval of a well-formed unit-free expression
\* over literals, binary + - * / and parentheses leaves the value of standard
\* arithmetic (* and / before + and -, equal levels from left to right,
\* parentheses first), and the postfix sequence has the literals in source
\* order.
C24_StandardArithmetic ==
    (EvalDone /\ WellFormedArithmetic(call.tokens))
        => /\ call.kind = "Solution"
           /\ call.bare.value = StdExpr(call.tokens, 1).v
           /\ SelectSeq(ShuntingYard(call.tokens).stkOutput, IsLiteral)
                = SelectSeq(call.tokens, IsLiteral)

\* with output system Metric, Eval( "2*2-2*2" ) has left 8 on the solve
\* stack; the value of the expression is 0
C24_Witness ==
    /\ EvalDone /\ desiredUnitType = "Metric" /\ call.input = "2*2-2*2"
    /\ WellFormedArithmetic(call.tokens)
    /\ StdExpr(call.tokens, 1).v = Zero
    /\ call.bare = Solution(FromInt(8), GenericUnit)

-----------------------------------------------------------------------------
(***************************************************************************)
(* Properties of the units of a result, checked under Spec.                *)
(***************************************************************************)

\* an Eval call of the caller, with no previous Solution or with the
\* caller's own, has returned a Solution
EvalReturned == call.op \in {"Eval", "EvalAssign"} /\ call.kind = "Solution"

\* C25: after any sequence of SetUnitOut calls and Eval calls, each Eval
\* given no previous Solution, the default unit, or a Solution of an earlier
\* Eval, every Solution returned has the unit type of the active output
\* system and a scale that UnitName names: "" in Generic mode, and never
\* "<error>".
C25_ResultUnitsNamed ==
    EvalReturned
        => /\ call.solution.units.type = desiredUnitType
           /\ UnitName(this, call.solution.units) # "<error>"
           /\ desiredUnitType = "Generic" => UnitName(this, call.solution.units) = ""

\* with output system Metric, Eval given a previous Solution returned under
\* Imperial has returned a Solution in a named Metric unit
C25_Witness ==
    /\ EvalReturned /\ desiredUnitType = "Metric"
    /\ call.input = "+5"
    /\ call.prev # << >>
    /\ call.prev[1].units.type = "Imperial"
    /\ call.prev[1].units.scale # _impScaleFoot
    /\ call.solution.units.type = "Metric"
    /\ UnitName(this, call.solution.units) \in {"mm", "m", "Km", "Mm"}

-----------------------------------------------------------------------------
(***************************************************************************)
(* Properties of the normalizers, checked under SpecProbe.                 *)
(***************************************************************************)

\* the display scale of the Metric table for the magnitude of v
MetricScaleFor(v) ==
    IF Lt(Fabs(v), One) THEN Dec(1, -3)
    ELSE IF Lt(Fabs(v), FromInt(1000)) THEN One
    ELSE IF Lt(Fabs(v), Dec(1, 6)) THEN Dec(1, 3)
    ELSE Dec(1, 6)

\* Eval has returned a Solution that NormaliseMetric was given as `Converted`
MetricNormalised == EvalDone /\ call.kind = "Solution" /\ desiredUnitType = "Metric"

\* the normalizer has changed the scale only, to a scale other than cm
ScaleOnly ==
    /\ call.solution.value = Converted.value
    /\ call.solution.units.type = Converted.units.type
    /\ call.solution.units.scale # Dec(1, -2)

\* C26 as the spec states it: for every value other than zero and every
\* starting scale the Metric normalizer ends at the scale of the magnitude
\* alone (mm below 1, m below 1000, Km below 1000000, Mm otherwise), never
\* cm, and changes nothing but the scale; zero gets the default unit.
C26_MetricScaleByMagnitude ==
    MetricNormalised
        => IF Converted.value = Zero
           THEN call.solution = Solution(Zero, DefaultUnit(this))
           ELSE /\ ScaleOnly
                /\ call.solution.units.scale = MetricScaleFor(Converted.value)

\* C26: the same for every value that is a number; a NaN, which compares
\* false with every bound, is left at its starting scale, except that cm
\* becomes m.
C26_MetricNormaliser ==
    MetricNormalised
        => IF Converted.value = Zero
           THEN call.solution = Solution(Zero, DefaultUnit(this))
           ELSE /\ ScaleOnly
                /\ Converted.value # NaN
                    => call.solution.units.scale = MetricScaleFor(Converted.value)
                /\ Converted.value = NaN
                    => call.solution.units.scale
                        = (IF Converted.units.scale = Dec(1, -2) THEN One
                           ELSE Converted.units.scale)

\* Eval( "1500" ) given a previous Solution in cm has returned 15 m: the
\* normalizer went from cm to m and stayed
C26_Witness ==
    /\ MetricNormalised /\ call.input = "1500"
    /\ Converted = Solution(FromInt(15), Unit(Dec(1, -2), "Metric"))
    /\ call.solution = Solution(FromInt(15), Unit(One, "Metric"))

\* the text that denotes the same length in another imperial unit
SameLength(text) ==
    IF text = "6in" THEN "0.5ft"
    ELSE IF text = "0.5ft" THEN "6in"
    ELSE IF text = "36in" THEN "1yd"
    ELSE IF text = "1yd" THEN "36in"
    ELSE text

\* Eval, with output system Imperial and no previous Solution, has returned
\* from a text that has another spelling of the same length
ImperialRespelled ==
    /\ EvalDone /\ desiredUnitType = "Imperial" /\ call.prev = << >>
    /\ SameLength(call.input) # call.input

\* what Eval returns for the other spelling
Respelled == Eval(this, SameLength(call.input), << >>, call.point, charSigned)

\* C27: with output system Imperial, two texts that denote the same length
\* other than zero in different imperial units ("6in" and "0.5ft", "36in"
\* and "1yd") are returned with the same value and the same display unit.
C27_ImperialUnitByMagnitude ==
    ImperialRespelled
        => /\ call.kind = "Solution" /\ Respelled.kind = "Solution"
           /\ call.solution.value = Respelled.solution.value
           /\ call.solution.units = Respelled.solution.units

\* Eval( "6in" ) has returned 6000 thou in inches, and Eval( "0.5ft" )
\* returns the same 6000 thou in feet
C27_Witness ==
    /\ ImperialRespelled /\ call.input = "6in"
    /\ call.solution = Solution(FromInt(6000), Unit(_impScaleInch, "Imperial"))
    /\ Respelled.solution = Solution(FromInt(6000), Unit(_impScaleFoot, "Imperial"))

-----------------------------------------------------------------------------
(***************************************************************************)
(* Properties of the unit names and of Symbol tokens.                      *)
(***************************************************************************)

\* the text Parse was given is the digit 2 followed by a name of _mapUnits
TypedUnitName == SubSeq(call.input, 2, Len(call.input))

TypedUnitParsed ==
    /\ ParseDone /\ Len(call.input) >= 2 /\ SubSeq(call.input, 1, 1) = "2"
    /\ TypedUnitName \in DOMAIN mapUnits

\* C28: every name of the forward map is made of characters of gUnitDigits,
\* and Parse of a digit followed by the name returns a numeric literal and a
\* Unit token with the scale of the name.
C28_UnitNamesTypable ==
    /\ \A nm \in DOMAIN mapUnits : CharsOf(nm) \subseteq gUnitDigits
    /\ TypedUnitParsed
        => /\ call.kind = "ok"
           /\ call.tokens
                = << Token(0, "Literal_Numeric", "2", FromInt(2)),
                     Token(1, "Unit", TypedUnitName, mapUnits[TypedUnitName].scale) >>

\* after SetUnitOut( Imperial ), Parse( "2thou" ) has ended with the
\* Parse-stage error for the character u
C28_Witness ==
    /\ TypedUnitParsed /\ desiredUnitType = "Imperial" /\ call.input = "2thou"
    /\ call.kind = "Parser" /\ call.msg = "Unknown character 'u'"

\* the tokens have a Symbol token
HasSymbolToken(tokens) == \E i \in 1..Len(tokens) : tokens[i].type = "Symbol"

\* the position in the tokens of their first Symbol token
FirstSymbol(tokens) ==
    CHOOSE i \in 1..Len(tokens) :
        tokens[i].type = "Symbol" /\ \A j \in 1..(i - 1) : tokens[j].type # "Symbol"

\* C29: when Parse has returned tokens with a Symbol token among them,
\* wherever it stands, Eval ends with the Solve-stage error "Unsupported
\* Token"; and no Eval whose scan has made a Symbol token returns a Solution.
C29_SymbolNeverIgnored ==
    EvalDone
        => /\ HasSymbolToken(call.tokens)
                => call.kind = "Solver" /\ call.msg = "Unsupported Token"
           /\ HasSymbolToken(call.scanned) => call.kind # "Solution"

\* Eval( "5 + mmm" ) has ended with the Solve-stage error, the Symbol being
\* the third token of the three Parse returned
C29_Witness ==
    /\ EvalDone /\ call.input = "5 + mmm"
    /\ Len(call.tokens) = 3 /\ FirstSymbol(call.tokens) = 3
    /\ call.tokens[3] = Token(4, "Symbol", "mmm", Zero)
    /\ call.kind = "Solver" /\ call.msg = "Unsupported Token"

-----------------------------------------------------------------------------
(***************************************************************************)
(* The history of a compiler and the outcome of Eval, checked under Spec.  *)
(***************************************************************************)

\* an Eval call of the caller has ended
EvalEnded == call.op \in {"Eval", "EvalAssign"}

\* how Eval ended: with a Solution, or with the stage of an error and its
\* message
Outcome(r) == << r.kind, r.msg, r.solution >>

\* Eval of the text of the call, given the previous Solution of the call, by
\* the compiler that
EvalBy(that) == Eval(that, call.input, call.prev, call.point, charSigned)

\* a compiler on which nothing but SetUnitOut( type ) has been called
FreshCompiler(type) == SetUnitOut(This(type, << >>, << >>, TRUE, ".", 0), type)

\* a compiler with the output system and the unit maps of this one, on which
\* no text has been scanned
SameUnitSystem ==
    This(desiredUnitType, mapUnits, mapUnitLookup, imperialFractions, ".", 0)

=============================================================================
